---------------------------- MODULE Spec2Model ----------------------------
(***************************************************************************)
(* Model of the replacement search of EOL/replacement_search.py            *)
(* (find_replacements_for_mpn and its helpers) and of the parameter        *)
(* ranking of EOL/rank_params.py (rank_parameter_ids).                     *)
(*                                                                         *)
(* Text is modelled as a sequence of one-character strings, so that the    *)
(* normalisations of the source (strip, upper, lower, regex removal,       *)
(* substring tests) are computed and not assumed.  Python's None is the    *)
(* one-element sequence None; a non-ASCII character is written by name     *)
(* ("emdash" is U+2014).                                                   *)
(***************************************************************************)
EXTENDS Integers, Sequences, FiniteSets, TLC

\* ------------------------------------------------------------------ text

None == << "<None>" >>

Lowers == << "a","b","c","d","e","f","g","h","i","j","k","l","m",
             "n","o","p","q","r","s","t","u","v","w","x","y","z" >>
Uppers == << "A","B","C","D","E","F","G","H","I","J","K","L","M",
             "N","O","P","Q","R","S","T","U","V","W","X","Y","Z" >>
DigitChars == << "0","1","2","3","4","5","6","7","8","9" >>

RangeOf(s) == { s[i] : i \in DOMAIN s }

DigitSet == RangeOf(DigitChars)
LowerSet == RangeOf(Lowers)
UpperSet == RangeOf(Uppers)
AlnumSet == DigitSet \cup LowerSet \cup UpperSet

ToUpper == [ c \in LowerSet |-> Uppers[CHOOSE i \in DOMAIN Lowers : Lowers[i] = c] ]
ToLower == [ c \in UpperSet |-> Lowers[CHOOSE i \in DOMAIN Uppers : Uppers[i] = c] ]

IsDigit(c) == c \in DigitSet
IsAlnum(c) == c \in AlnumSet
IsSpace(c) == c = " "
IsDash(c)  == c \in { "-", "emdash" }

UpperChar(c) == IF c \in LowerSet THEN ToUpper[c] ELSE c
LowerChar(c) == IF c \in UpperSet THEN ToLower[c] ELSE c

\* str.upper() / str.lower()
Upper(s) == [ i \in DOMAIN s |-> UpperChar(s[i]) ]
Lower(s) == [ i \in DOMAIN s |-> LowerChar(s[i]) ]

RECURSIVE LStrip(_)
LStrip(s) == IF s # << >> /\ IsSpace(Head(s)) THEN LStrip(Tail(s)) ELSE s
RECURSIVE RStrip(_)
RStrip(s) ==
    IF s # << >> /\ IsSpace(s[Len(s)]) THEN RStrip(SubSeq(s, 1, Len(s) - 1)) ELSE s
\* str.strip()
Strip(s) == RStrip(LStrip(s))

\* x or ""
OrEmpty(s) == IF s = None THEN << >> ELSE s

\* t in s (substring test)
IsSubstring(t, s) ==
    \E i \in 0 .. (Len(s) - Len(t)) : SubSeq(s, i + 1, i + Len(t)) = t

\* " ".join(parts)
RECURSIVE JoinSpace(_)
JoinSpace(parts) ==
    IF parts = << >> THEN << >>
    ELSE IF Len(parts) = 1 THEN parts[1]
    ELSE parts[1] \o << " " >> \o JoinSpace(Tail(parts))

\* re.sub(r"\s+", " ", t)
RECURSIVE CompactSpaces(_)
CompactSpaces(t) ==
    IF t = << >> THEN << >>
    ELSE IF IsSpace(Head(t))
      THEN << " " >> \o CompactSpaces(LStrip(t))
      ELSE << Head(t) >> \o CompactSpaces(Tail(t))

\* --------------------------------------------- replacement_search helpers

\* _PLACEHOLDER
PLACEHOLDER == { << >>, << "-" >>, << "emdash" >>, << "n", "/", "a" >>, << "n", "a" >>,
                 << "n", "o", "n", "e" >>, << "n", "u", "l", "l" >> }

\* _is_placeholder
is_placeholder(val) ==
    IF val = None THEN TRUE ELSE Lower(Strip(val)) \in PLACEHOLDER

\* _norm_mpn: re.sub(r"[^A-Za-z0-9]", "", (s or "").upper())
norm_mpn(s) == SelectSeq(Upper(OrEmpty(s)), IsAlnum)

\* the maximal runs of digits of s, as (first, last) positions
DigitRuns(s) ==
    { r \in (DOMAIN s) \X (DOMAIN s) :
        /\ r[1] <= r[2]
        /\ \A k \in r[1] .. r[2] : IsDigit(s[k])
        /\ (r[1] = 1 \/ ~IsDigit(s[r[1] - 1]))
        /\ (r[2] = Len(s) \/ ~IsDigit(s[r[2] + 1])) }

\* re.findall(r"\d{3,}", s): greedy, so every maximal run of three digits or more
FindAllDigits3(s) ==
    { SubSeq(s, r[1], r[2]) : r \in { q \in DigitRuns(s) : q[2] - q[1] + 1 >= 3 } }

\* re.match(r"\d{3,}", s): the run at the start of s, if it has three digits or more
MatchDigits3(s) ==
    { SubSeq(s, r[1], r[2]) :
        r \in { q \in DigitRuns(s) : q[1] = 1 /\ q[2] - q[1] + 1 >= 3 } }

DigitVal(c) == CHOOSE i \in DOMAIN DigitChars : DigitChars[i] = c

\* a < b for strings of digits (Python's str ordering on them)
RECURSIVE StrLess(_, _)
StrLess(a, b) ==
    IF a = << >> THEN b # << >>
    ELSE IF b = << >> THEN FALSE
    ELSE IF Head(a) = Head(b) THEN StrLess(Tail(a), Tail(b))
    ELSE DigitVal(Head(a)) < DigitVal(Head(b))

\* a sort that puts the shorter tokens first
TokenBefore_shortest_first(a, b) ==
    \/ Len(a) < Len(b)
    \/ Len(a) = Len(b) /\ StrLess(a, b)

\* the sort key of _base_tokens: (-len(t), t)
TokenBefore(a, b) ==
    \/ Len(a) > Len(b)
    \/ Len(a) = Len(b) /\ StrLess(a, b)

RECURSIVE SortTokens(_)
SortTokens(S) ==
    IF S = { } THEN << >>
    ELSE LET first == CHOOSE t \in S : \A u \in S \ { t } : TokenBefore(t, u)
         IN  << first >> \o SortTokens(S \ { first })

base_tokens(original_mpn) ==
    LET s == norm_mpn(original_mpn)
        tokset == FindAllDigits3(s) \cup MatchDigits3(s)
    IN  SortTokens(tokset)

\* truthiness of an optional string: neither None nor ""
Truthy(x) == x # None /\ x # << >>

\* x or None, for an optional string
OrNone(x) == IF Truthy(x) THEN x ELSE None

\* _values_from_ranked, one row: << >> when the row is skipped
values_row(p) ==
    LET name     == Strip(OrEmpty(p.name))
        val0     == Strip(OrEmpty(p.value))
        val_text == IF is_placeholder(val0) THEN name ELSE val0
    IN  IF name = << >> \/ is_placeholder(val_text)
          THEN << >>
          ELSE << [ name |-> name, value |-> val_text,
                    id |-> OrNone(p.id), value_id |-> OrNone(p.value_id) ] >>

RECURSIVE values_from_ranked(_)
values_from_ranked(ranked) ==
    IF ranked = << >> THEN << >>
    ELSE values_row(Head(ranked)) \o values_from_ranked(Tail(ranked))

\* _extract_products of a catalog response.  A response is
\*   [kind |-> "none"]        no response object (transport failure)
\*   [kind |-> "badjson"]     r.json() raises
\*   [kind |-> "noproducts"]  a body without a product list
\*   [kind |-> "ok", products |-> <<...>>]
extract_products(r) == IF r.kind = "ok" THEN r.products ELSE << >>

\* _brief_fallback: the part number is stripped and upper-cased
brief_fallback(p) ==
    [ mpn |-> Upper(Strip(OrEmpty(p.ManufacturerPartNumber))),
      match_reasons |-> << >>,
      enriched |-> "no" ]

\* _normalize_products_dk, with _normalize_dk = None (API.digikey is not imported)
normalize_products_dk(items) ==
    [ i \in DOMAIN items |-> brief_fallback(items[i]) ]

Fan == << "f", "a", "n" >>
Dc == << "d", "c" >>
DCFans == << "D", "C", " ", "F", "a", "n", "s" >>
Fans == << "F", "a", "n", "s" >>

\* _pick_base_keywords
pick_base_keywords(b) ==
    LET cand == IF Truthy(b.category) THEN b.category
                ELSE IF Truthy(b.family) THEN b.family ELSE << >>
        s    == Strip(cand)
        desc == Lower(OrEmpty(b.description))
        low  == Lower(s)
    IN  IF s = << >>
          THEN IF IsSubstring(Fan, desc)
                 THEN IF IsSubstring(Dc, desc) THEN DCFans ELSE Fans
                 ELSE << >>
        ELSE IF IsSubstring(Fan, low) /\ IsSubstring(Dc, low) THEN DCFans
        ELSE IF IsSubstring(Fan, low) THEN Fans
        ELSE s

\* the value tokens of _keywords_from_values, at most max_tokens of them
RECURSIVE value_tokens(_, _)
value_tokens(values, max_tokens) ==
    IF values = << >> \/ max_tokens <= 0 THEN << >>
    ELSE LET t == Strip(OrEmpty(Head(values).value))
         IN  IF t = << >>
               THEN value_tokens(Tail(values), max_tokens)
               ELSE << CompactSpaces(t) >> \o value_tokens(Tail(values), max_tokens - 1)

\* _keywords_from_values
keywords_from_values(base_kw, values, max_tokens) ==
    IF base_kw # << >>
      THEN JoinSpace(<< base_kw >> \o value_tokens(values, max_tokens))
      ELSE JoinSpace(value_tokens(values, max_tokens))

\* record_count of _search_dk_with_filters and _keyword_fallback
RecordCount == 50
\* max_tokens of the joined keyword variant, and the number of single-value variants
MaxTokens == 3
TopValues == 3
\* the number of parameters named in match_reasons, and of products that get them
MaxReasons == 6
ReasonProducts == 10

\* the four filter shapes of _search_dk_with_filters, each with the rows it takes
\* a first shape that takes every row with an identifier
HasIdValueId_id_only(t) == Truthy(t.id)

HasIdValueId(t) == Truthy(t.id) /\ Truthy(t.value_id)
HasIdValue(t) == Truthy(t.id) /\ Truthy(t.value)
HasNameValue(t) == Truthy(t.name) /\ Truthy(t.value)

p_id_valId(ts) ==
    LET sel == SelectSeq(ts, HasIdValueId)
    IN  [ i \in DOMAIN sel |-> [ ParameterId |-> sel[i].id, ValueId |-> sel[i].value_id ] ]
p_id_valTxt(ts) ==
    LET sel == SelectSeq(ts, HasIdValue)
    IN  [ i \in DOMAIN sel |-> [ ParameterId |-> sel[i].id, ValueText |-> sel[i].value ] ]
p_id_val(ts) ==
    LET sel == SelectSeq(ts, HasIdValue)
    IN  [ i \in DOMAIN sel |-> [ ParameterId |-> sel[i].id, Value |-> sel[i].value ] ]
p_txt_val(ts) ==
    LET sel == SelectSeq(ts, HasNameValue)
    IN  [ i \in DOMAIN sel |-> [ ParameterText |-> sel[i].name, ValueText |-> sel[i].value ] ]

FilterBody(tier, base_kw, filters) ==
    IF filters = << >> THEN << >>
    ELSE << [ tier |-> tier, Keywords |-> base_kw, RecordCount |-> RecordCount,
              filters |-> filters ] >>

\* a cascade that starts with its loosest shape
filter_candidates_loosest_first(base_kw, ts) ==
    FilterBody(4, base_kw, p_txt_val(ts)) \o FilterBody(3, base_kw, p_id_val(ts))
      \o FilterBody(2, base_kw, p_id_valTxt(ts)) \o FilterBody(1, base_kw, p_id_valId(ts))

\* the list "candidates" of _search_dk_with_filters
filter_candidates(base_kw, ts) ==
    FilterBody(1, base_kw, p_id_valId(ts)) \o FilterBody(2, base_kw, p_id_valTxt(ts))
      \o FilterBody(3, base_kw, p_id_val(ts)) \o FilterBody(4, base_kw, p_txt_val(ts))

\* the list "attempts" of _keyword_fallback
keyword_attempts(base_kw, remaining) ==
    LET top == SubSeq(remaining, 1, IF Len(remaining) < TopValues
                                      THEN Len(remaining) ELSE TopValues)
    IN  (IF base_kw # << >> THEN << base_kw >> ELSE << >>)
          \o << keywords_from_values(base_kw, remaining, MaxTokens) >>
          \o [ i \in DOMAIN top |-> keywords_from_values(base_kw, << top[i] >>, 1) ]

\* a fallback that tells keyword strings apart by their case
RECURSIVE issued_keywords_case_sensitive(_, _)
issued_keywords_case_sensitive(attempts, seen) ==
    IF attempts = << >> THEN << >>
    ELSE LET kw == Strip(Head(attempts))
         IN  IF kw = << >> \/ kw \in seen
               THEN issued_keywords_case_sensitive(Tail(attempts), seen)
               ELSE << kw >> \o issued_keywords_case_sensitive(Tail(attempts),
                                                              seen \cup { kw })

\* the keyword strings _keyword_fallback sends while every response is empty:
\* an empty string, or one already seen (lower-cased), is skipped
RECURSIVE issued_keywords(_, _)
issued_keywords(attempts, seen) ==
    IF attempts = << >> THEN << >>
    ELSE LET kw == Strip(Head(attempts))
         IN  IF kw = << >> \/ Lower(kw) \in seen
               THEN issued_keywords(Tail(attempts), seen)
               ELSE << kw >> \o issued_keywords(Tail(attempts), seen \cup { Lower(kw) })

keyword_queries(base_kw, remaining) ==
    issued_keywords(keyword_attempts(base_kw, remaining), { })

\* contains_base
contains_base(subj_norm, tokens) ==
    \E i \in DOMAIN tokens : tokens[i] # << >> /\ IsSubstring(tokens[i], subj_norm)

\* the hard filter of line 418: exact matches of the original part are removed
NotSelf(original_mpn_norm, p) == norm_mpn(p.mpn) # original_mpn_norm

exclude_self(products, original_mpn_norm) ==
    LET Keep(p) == NotSelf(original_mpn_norm, p)
    IN  SelectSeq(products, Keep)

\* a family filter whose mode names are misspelt, so that no mode filters
KeepInMode_misspelt(mode, tokens, p) ==
    IF mode = "exclude-base" THEN ~contains_base(norm_mpn(p.mpn), tokens)
    ELSE IF mode = "only-base" THEN contains_base(norm_mpn(p.mpn), tokens)
    ELSE TRUE

\* the family filter of lines 422-425
KeepInMode(mode, tokens, p) ==
    IF mode = "exclude_base" THEN ~contains_base(norm_mpn(p.mpn), tokens)
    ELSE IF mode = "only_base" THEN contains_base(norm_mpn(p.mpn), tokens)
    ELSE TRUE

family_filter(products, mode, tokens) ==
    LET Keep(p) == KeepInMode(mode, tokens, p)
    IN  SelectSeq(products, Keep)

\* the rows of used_values, used_parameters and dropped_parameters
param_rows(ts) ==
    [ i \in DOMAIN ts |-> [ name |-> ts[i].name, value |-> ts[i].value,
                            id |-> ts[i].id, value_id |-> ts[i].value_id ] ]

\* DASHES_RX.sub(rep, s): every run of dash characters becomes rep
RECURSIVE LStripDashes(_)
LStripDashes(s) == IF s # << >> /\ IsDash(Head(s)) THEN LStripDashes(Tail(s)) ELSE s
RECURSIVE SubDashes(_, _)
SubDashes(s, rep) ==
    IF s = << >> THEN << >>
    ELSE IF IsDash(Head(s)) THEN rep \o SubDashes(LStripDashes(s), rep)
    ELSE << Head(s) >> \o SubDashes(Tail(s), rep)

\* s.split()[0], for a stripped s that is not empty
RECURSIVE FirstToken(_)
FirstToken(s) ==
    IF s = << >> \/ IsSpace(Head(s)) THEN << >>
    ELSE << Head(s) >> \o FirstToken(Tail(s))

AppendNew(variants, v) ==
    IF v # << >> /\ v \notin RangeOf(variants) THEN Append(variants, v) ELSE variants

\* _mpn_variants
mpn_variants(mpn_raw) ==
    LET s0 == Strip(OrEmpty(mpn_raw))
        no_dash == SubDashes(s0, << >>)
        spaced == Strip(CompactSpaces(SubDashes(s0, << " " >>)))
        first_tok == FirstToken(s0)
    IN  IF s0 = << >> THEN << >>
        ELSE AppendNew(AppendNew(AppendNew(<< s0 >>, no_dash), spaced), first_tok)

\* ------------------------------------------------------------ the inputs

\* the longest list of ranked parameters the attribute lookup returns
MaxParams == 2

\* part numbers a caller asks about: "4414F", "ab-12" and a blank one
MPN_4414F == << "4", "4", "1", "4", "F" >>
MPN_ab12 == << "a", "b", "-", "1", "2" >>
MPNs == { MPN_4414F, MPN_ab12, << " " >> }

BaseModes == { "none", "exclude_base", "only_base" }

\* parameter rows of the attribute lookup, in the order the lookup ranks them: a row
\* with both identifiers, a row with neither a name nor a value, a row with an
\* identifier and a value with blanks in it, and a row without identifier whose
\* value is a placeholder
ParamPool ==
    << [ id |-> << "1" >>, name |-> << "V" >>, value |-> << "2", "4", "V" >>,
         value_id |-> << "9" >> ],
       [ id |-> << "4" >>, name |-> << >>, value |-> << "N", "/", "A" >>,
         value_id |-> None ],
       [ id |-> << "2" >>, name |-> << "A", "i", "r" >>,
         value |-> << "1", " ", " ", "C" >>, value_id |-> None ],
       [ id |-> None, name |-> << "I", "P" >>, value |-> << "-" >>, value_id |-> None ] >>

RECURSIVE SubLists(_)
SubLists(s) ==
    IF s = << >> THEN { << >> }
    ELSE LET rest == SubLists(Tail(s))
         IN  rest \cup { << Head(s) >> \o r : r \in rest }

\* the ranked parameters of a part: rows of the pool, MaxParams of them at most
RankedLists == { r \in SubLists(ParamPool) : Len(r) <= MaxParams }

\* the attribute maps of a part whose lookup carries no ranked parameters
AttributeMaps ==
    { << >>, << [ k |-> << "S" >>, v |-> << "4", "0" >> ] >> }

\* the category of a part: none, or one that names a DC fan
Categories == { None, << "d", "c", " ", "F", "A", "N" >> }

\* what fetch_attributes_for_mpn returns for the original part
BaseResults ==
    { b \in [ category : Categories, family : { None },
              description : { None }, ranked_parameters : RankedLists,
              attributes : AttributeMaps ] :
        b.ranked_parameters # << >> => b.attributes = << >> }

\* the vendor's records: the searched fan, a part of its family, another part
CatalogItems ==
    << [ ManufacturerPartNumber |-> << "4", "4", "1", "4", "F" >> ],
       [ ManufacturerPartNumber |-> << "4", "4", "1", "4", "f", "-", "N", "D" >> ],
       [ ManufacturerPartNumber |-> << " ", "A", "B", "1", "2" >> ] >>

\* the product lists of a response: no record, one record, or all the records
ProductLists ==
    { << >>, CatalogItems } \cup { << CatalogItems[i] >> : i \in DOMAIN CatalogItems }

\* the responses of the catalog search to one query:
\*   "none"        no response, or a response that is false (an HTTP error status)
\*   "badjson"     a body r.json() cannot parse
\*   "noproducts"  a JSON object without a list of products
\*   "notobject"   a JSON body that is not an object (a string, a number, an array)
\*   "ok"          a JSON object with the list products
Responses ==
    { [ kind |-> "none" ], [ kind |-> "badjson" ], [ kind |-> "noproducts" ],
      [ kind |-> "notobject" ] }
      \cup { [ kind |-> "ok", products |-> ps ] : ps \in ProductLists }

\* what _get_digikey_token can return: nothing, an empty string, or a token
Tokens == { None, << >>, << "t" >> }
\* the variable token before line 388 assigns it
NoToken == << "<unset>" >>

AttrPrefix == << "a", "t", "t", "r", ":" >>

\* lines 350-355: the ranked rows of the lookup, or rows made of its attributes
ranked_of(b) ==
    IF b.ranked_parameters # << >> THEN b.ranked_parameters
    ELSE [ i \in DOMAIN b.attributes |->
             [ id |-> AttrPrefix \o b.attributes[i].k, name |-> b.attributes[i].k,
               value |-> b.attributes[i].v, value_id |-> None ] ]

\* ------------------------------------------------- find_replacements_for_mpn

VARIABLES
    pc,               \* where the call of find_replacements_for_mpn stands
    mpn,              \* the argument mpn
    require_results,  \* the argument require_results
    base_mode,        \* the argument base_mode
    base,             \* the attribute lookup of the original part
    triples,          \* _values_from_ranked(ranked)
    base_keywords,
    used,
    dropped,
    iterations,
    products_norm,
    raw,              \* the products of the attempt's first non-empty response
    idx,              \* the next filter body or keyword string of the attempt
    queries,          \* the catalog queries of the current attempt, with their counts
    search_log,       \* the parameter lists the attempts searched with, in order
    token_requests,   \* calls of _get_digikey_token
    credential,       \* the token the environment can give: None or "" when it has none
    token,            \* what _get_digikey_token returned
    tasks,            \* the products whose enrichment task has not finished
    futs,             \* the enrichment tasks submitted to the pool, one per product
    enrich_lookups,   \* attribute lookups made by the enrichment tasks
    result,           \* the returned dictionary
    setting,          \* the environment's REPL_ENRICH_WORKERS
    workers,          \* max_workers of the enrichment pool
    threads,          \* the enrichment tasks of the pool, step by step
    sys_stdout,       \* the stream sys.stdout refers to
    writes,           \* which enrichment task has written which object
    rank_pc,          \* where the call of rank_parameter_ids stands
    params,           \* the argument params of rank_parameter_ids
    api_key,          \* whether OPENAI_API_KEY is set
    content,          \* the text the ranking oracle answered with
    rank_result       \* what rank_parameter_ids returned, or that it raised

vars == << pc, mpn, require_results, base_mode, base, triples,
           base_keywords, used, dropped, iterations, products_norm, raw, idx,
           queries, search_log, token_requests, credential, token,
           tasks, futs, enrich_lookups, result, setting, workers, threads, sys_stdout, writes,
           rank_pc, params, api_key, content, rank_result >>

enrich_vars == << tasks, futs, enrich_lookups >>
pool_vars == << setting, workers, threads, sys_stdout, writes >>
rank_vars == << rank_pc, params, api_key, content, rank_result >>
search_vars == << pc, mpn, require_results, base_mode, base, triples, base_keywords,
                 used, dropped, iterations, products_norm, raw, idx, queries,
                 search_log, token_requests, credential, token, tasks, futs,
                 enrich_lookups, result, pool_vars >>

\* no text from the ranking oracle: None
\* the stream the process started with, as a value of sys.stdout
Console == << "console", 0 >>

\* before line 517: no pool, and sys.stdout is the stream the process started with
PoolNotStarted ==
    /\ setting = None
    /\ workers = 0
    /\ threads = << >>
    /\ sys_stdout = Console
    /\ writes = { }

NoContent == [ kind |-> "none", rows |-> << >> ]

NoRanking == [ kind |-> "pending", rows |-> << >>, error |-> "" ]

NoBase == [ category |-> None, family |-> None, description |-> None,
            ranked_parameters |-> << >>, attributes |-> << >> ]

NoResult ==
    [ kind |-> "none", ok |-> FALSE, error |-> "", note |-> "", iterations |-> << >>,
      used_parameters |-> << >>, dropped_parameters |-> << >>, products |-> << >>,
      base_tokens |-> << >> ]

Init ==
    /\ pc = "call"
    /\ mpn \in MPNs
    /\ require_results \in BOOLEAN
    /\ base_mode \in BaseModes
    /\ base = NoBase
    /\ triples = << >>
    /\ base_keywords = << >>
    /\ used = << >>
    /\ dropped = << >>
    /\ iterations = << >>
    /\ products_norm = << >>
    /\ raw = << >>
    /\ idx = 0
    /\ queries = << >>
    /\ search_log = << >>
    /\ token_requests = 0
    /\ credential \in Tokens
    /\ token = NoToken
    /\ tasks = { }
    /\ futs = << >>
    /\ enrich_lookups = 0
    /\ PoolNotStarted
    /\ result = NoResult
    /\ rank_pc = "idle"
    /\ params = << >>
    /\ api_key = FALSE
    /\ content = NoContent
    /\ rank_result = NoRanking

\* lines 334-336: a blank part number is refused
MissingMpn ==
    /\ pc = "call"
    /\ Strip(mpn) = << >>
    /\ result' = [ NoResult EXCEPT !.kind = "error", !.error = "missing mpn" ]
    /\ pc' = "done"
    /\ UNCHANGED << mpn, require_results, base_mode, base, triples,
                    base_keywords, used, dropped, iterations, products_norm, raw, idx,
                    queries, search_log, token_requests, credential, token, enrich_vars,
                    rank_vars, pool_vars >>

\* a search that goes on without usable parameters
no_usable_never(ts) == FALSE

\* line 374: no usable parameter is left to search with
no_usable(ts) == ts = << >>

\* lines 348-385: the attributes of the original part are fetched and its usable
\* parameters listed; with none of them the search returns at once
FetchBase ==
    /\ pc = "call"
    /\ Strip(mpn) # << >>
    /\ \E b \in BaseResults :
         LET ts == values_from_ranked(ranked_of(b))
         IN  /\ base' = b
             /\ triples' = ts
             /\ base_keywords' = pick_base_keywords(b)
             /\ mpn' = Strip(mpn)
             /\ IF no_usable(ts)
                  THEN /\ result' = [ NoResult EXCEPT
                                        !.kind = "no_params", !.ok = TRUE,
                                        !.note = "No usable parameter values available for filtering.",
                                        !.base_tokens = base_tokens(Strip(mpn)) ]
                       /\ pc' = "done"
                  ELSE /\ result' = result
                       /\ pc' = "token"
    /\ UNCHANGED << require_results, base_mode, used, dropped, iterations,
                    products_norm, raw, idx, queries, search_log, token_requests, credential, token, enrich_vars,
                    rank_vars, pool_vars >>

\* a check that takes the empty string for a token
token_missing_only_none(tok) == tok = None

\* line 389: "if not token"
token_missing(tok) == ~Truthy(tok)

\* lines 387-399: the catalog token is asked for; without it the search is an error
GetToken ==
    /\ pc = "token"
    /\ token_requests' = token_requests + 1
    /\ LET tok == credential
       IN
         /\ token' = tok
         /\ IF token_missing(tok)
              THEN /\ result' = [ NoResult EXCEPT
                                    !.kind = "error",
                                    !.error = "Digi-Key token not available; check DIGIKEY_* envs." ]
                   /\ pc' = "done"
                   /\ UNCHANGED << used, dropped >>
              ELSE /\ used' = triples
                   /\ dropped' = << >>
                   /\ pc' = "attempt"
                   /\ result' = result
    /\ UNCHANGED << mpn, require_results, base_mode, base, triples,
                    base_keywords, iterations, products_norm, raw, idx, queries,
                    search_log, credential, enrich_vars,
                    rank_vars, pool_vars >>

\* an attempt without keyword fallback
AfterFilters_no_fallback(base_kw, ts) == [ pc |-> "decide", idx |-> 0 ]

\* where an attempt goes once its filter bodies are used up (line 411-414): to the
\* keyword fallback, or to the filtering when the fallback has nothing to send
AfterFilters(base_kw, ts) ==
    IF keyword_queries(base_kw, ts) = << >>
      THEN [ pc |-> "decide", idx |-> 0 ]
      ELSE [ pc |-> "keywords", idx |-> 1 ]

\* where an attempt starts: at its first filter body, if it has one
FirstStage(base_kw, ts) ==
    IF filter_candidates(base_kw, ts) # << >>
      THEN [ pc |-> "filters", idx |-> 1 ]
      ELSE AfterFilters(base_kw, ts)

\* line 404-409: an attempt starts with the parameters still in use
BeginAttempt ==
    /\ pc = "attempt"
    /\ search_log' = Append(search_log, used)
    /\ queries' = << >>
    /\ raw' = << >>
    /\ pc' = FirstStage(base_keywords, used).pc
    /\ idx' = FirstStage(base_keywords, used).idx
    /\ UNCHANGED << mpn, require_results, base_mode, base, triples,
                    base_keywords, used, dropped, iterations, products_norm,
                    token_requests, credential, token, result, enrich_vars,
                    rank_vars, pool_vars >>

\* what find_replacements_for_mpn leaves behind when an exception goes through it
Raised(error) == [ NoResult EXCEPT !.kind = "raised", !.error = error ]

\* lines 261-264 and 310-313 with line 95: "r.json() or {}" is only an object when
\* the body is one, and j.get(...) of another JSON value raises AttributeError
\* outside the try
response_raises(r) == r.kind = "notobject"

\* lines 245-273: one filter body is sent; a response with products ends the search
\* of this attempt, any other response moves on to the next body
FilterQuery ==
    /\ pc = "filters"
    /\ LET cands == filter_candidates(base_keywords, used)
       IN  \E r \in Responses :
             LET prods == extract_products(r)
                 next  == IF idx < Len(cands)
                            THEN [ pc |-> "filters", idx |-> idx + 1 ]
                            ELSE AfterFilters(base_keywords, used)
             IN  /\ queries' = Append(queries, [ kind |-> "filter", body |-> cands[idx],
                                                 n |-> Len(prods) ])
                 /\ IF response_raises(r)
                      THEN /\ raw' = << >>
                           /\ pc' = "done"
                           /\ idx' = 0
                           /\ result' = Raised("AttributeError")
                    ELSE IF prods # << >>
                      THEN /\ raw' = prods
                           /\ pc' = "decide"
                           /\ idx' = 0
                           /\ result' = result
                      ELSE /\ raw' = << >>
                           /\ pc' = next.pc
                           /\ idx' = next.idx
                           /\ result' = result
    /\ UNCHANGED << mpn, require_results, base_mode, base, triples,
                    base_keywords, used, dropped, iterations, products_norm,
                    search_log, token_requests, credential, token, enrich_vars,
                    rank_vars, pool_vars >>

\* lines 298-318: one keyword string is sent; a response with products ends the
\* fallback, any other response moves on to the next string
KeywordQuery ==
    /\ pc = "keywords"
    /\ LET kws == keyword_queries(base_keywords, used)
       IN  \E r \in Responses :
             LET prods == extract_products(r)
             IN  /\ queries' = Append(queries, [ kind |-> "keyword",
                                                 body |-> [ Keywords |-> kws[idx],
                                                            RecordCount |-> RecordCount ],
                                                 n |-> Len(prods) ])
                 /\ IF response_raises(r)
                      THEN /\ raw' = << >>
                           /\ pc' = "done"
                           /\ idx' = 0
                           /\ result' = Raised("AttributeError")
                    ELSE IF prods # << >>
                      THEN /\ raw' = prods
                           /\ pc' = "decide"
                           /\ idx' = 0
                           /\ result' = result
                      ELSE /\ raw' = << >>
                           /\ pc' = IF idx < Len(kws) THEN "keywords" ELSE "decide"
                           /\ idx' = IF idx < Len(kws) THEN idx + 1 ELSE 0
                           /\ result' = result
    /\ UNCHANGED << mpn, require_results, base_mode, base, triples,
                    base_keywords, used, dropped, iterations, products_norm,
                    search_log, token_requests, credential, token, enrich_vars,
                    rank_vars, pool_vars >>

\* a hard filter that compares with the original part number as it was typed
filtered_products_raw_original(items, original, mode) ==
    family_filter(exclude_self(normalize_products_dk(items), original),
                  mode, base_tokens(original))

\* lines 410-425: the products are normalised, then the original part and, in a
\* family mode, the parts the mode rejects are removed
filtered_products(items, original, mode) ==
    family_filter(exclude_self(normalize_products_dk(items), norm_mpn(original)),
                  mode, base_tokens(original))

\* a record whose ordinal counts from zero
iteration_record_from_zero(its, u, d, products) ==
    [ attempt |-> Len(its),
      used_value_count |-> Len(u),
      dropped_value_count |-> Len(d),
      results |-> Len(products),
      used_values |-> param_rows(u) ]

\* lines 432-438
iteration_record(its, u, d, products) ==
    [ attempt |-> Len(its) + 1,
      used_value_count |-> Len(u),
      dropped_value_count |-> Len(d),
      results |-> Len(products),
      used_values |-> param_rows(u) ]

\* a loop that goes on dropping parameters after an attempt found products
loop_exit_when_exhausted(products, required, u) ==
    \/ ~required
    \/ u = << >>

\* a loop that ignores require_results
loop_exit_always_required(products, required, u) ==
    \/ products # << >>
    \/ u = << >>

\* lines 440-443: the loop is left with products, when results are not required,
\* or when no parameter is left to drop
loop_exit(products, required, u) ==
    \/ products # << >>
    \/ ~required
    \/ u = << >>

\* a loop that reads the last parameter and forgets to pop it
used_after_drop_no_pop(u) == u

\* a loop that drops the highest-ranked parameter
used_after_drop_head(u) == Tail(u)

\* line 447: used.pop()
used_after_drop(u) == SubSeq(u, 1, Len(u) - 1)

\* line 447: dropped.append(used.pop())
dropped_after_drop(u, d) == Append(d, u[Len(u)])

\* lines 417-448: the attempt is filtered and recorded, and either ends the loop or
\* drops the lowest-ranked parameter for another attempt
Decide ==
    /\ pc = "decide"
    /\ LET products == filtered_products(raw, mpn, base_mode)
       IN  /\ products_norm' = products
           /\ iterations' = Append(iterations,
                                   iteration_record(iterations, used, dropped, products))
           /\ IF loop_exit(products, require_results, used)
                THEN /\ pc' = "reasons"
                     /\ UNCHANGED << used, dropped >>
                ELSE /\ pc' = "attempt"
                     /\ used' = used_after_drop(used)
                     /\ dropped' = dropped_after_drop(used, dropped)
    /\ UNCHANGED << mpn, require_results, base_mode, base, triples,
                    base_keywords, raw, idx, queries, search_log, token_requests, credential, token,
                    result, enrich_vars,
                    rank_vars, pool_vars >>

Min(a, b) == IF a < b THEN a ELSE b

\* line 450: the name/value pairs of the first parameters still in use
match_reasons_of(u) ==
    [ i \in 1 .. Min(Len(u), MaxReasons) |-> u[i].name \o << " ", "=", " " >> \o u[i].value ]

\* lines 451-452: p.setdefault("match_reasons", ...) on the first products
with_reasons(products, reasons) ==
    [ i \in DOMAIN products |->
        IF i <= ReasonProducts /\ products[i].match_reasons = None
          THEN [ products[i] EXCEPT !.match_reasons = reasons ]
          ELSE products[i] ]

\* what one attribute lookup of an enrichment task gives: data (attributes or
\* ranked parameters), nothing, or an exception out of _fetch_attrs_quiet
LookupResults == { "data", "empty", "raise" }

\* line 525: the task submitted for a product, before its first lookup
NewTask == [ tried |-> 0, status |-> "running" ]

\* lines 450-452 and 517-525: the reasons are attached and, when there are products,
\* one enrichment task per product is submitted to the pool
AttachReasons ==
    /\ pc = "reasons"
    /\ products_norm' = with_reasons(products_norm, match_reasons_of(used))
    /\ tasks' = DOMAIN products_norm
    /\ futs' = [ i \in DOMAIN products_norm |-> NewTask ]
    /\ pc' = IF products_norm # << >> THEN "enrich" ELSE "return"
    /\ UNCHANGED << mpn, require_results, base_mode, base, triples,
                    base_keywords, used, dropped, iterations, raw, idx, queries,
                    search_log, token_requests, credential, token, enrich_lookups, result,
                    rank_vars, pool_vars >>

\* lines 489-492 and 511-515: how a task stands after a lookup of its k-th variant:
\* data ends it with success, an exception ends it, and a lookup without data
\* ends it only when no variant is left
status_after(r, k, variants) ==
    IF r = "empty" /\ k < Len(variants) THEN "running" ELSE r

\* a pool in which the exception of one task cancels the tasks still running
unfinished_after_abort(ts, i, status) ==
    IF status = "raise" THEN { } ELSE IF status = "running" THEN ts ELSE ts \ { i }

\* lines 524-527: the tasks of the pool that have not finished; the exception of a
\* task is caught inside the task (line 511) and the futures' results are never read
unfinished_after(ts, i, status) ==
    IF status = "running" THEN ts ELSE ts \ { i }

\* lines 481-515: the task of product i makes its next attribute lookup, variant
\* after variant, until a lookup gives data; a product without part number ends
\* its task without a lookup
Enrich(i) ==
    /\ pc = "enrich"
    /\ i \in tasks
    /\ LET variants == mpn_variants(products_norm[i].mpn)
           k == futs[i].tried + 1
       IN  IF variants = << >>
             THEN /\ futs' = [ futs EXCEPT ![i].status = "no_mpn" ]
                  /\ tasks' = unfinished_after(tasks, i, "no_mpn")
                  /\ UNCHANGED << products_norm, enrich_lookups >>
             ELSE \E r \in LookupResults :
                    LET status == status_after(r, k, variants)
                    IN  /\ futs' = [ futs EXCEPT ![i] = [ tried |-> k, status |-> status ] ]
                        /\ tasks' = unfinished_after(tasks, i, status)
                        /\ enrich_lookups' = enrich_lookups + 1
                        /\ products_norm' =
                             [ products_norm EXCEPT
                                 ![i].enriched = IF r = "data" THEN "yes" ELSE @ ]
    /\ UNCHANGED << pc, mpn, require_results, base_mode, base, triples,
                    base_keywords, used, dropped, iterations, raw, idx, queries,
                    search_log, token_requests, credential, token, result,
                    rank_vars, pool_vars >>

\* a return that does not wait for the pool
pool_joined_no_wait(ts) == TRUE

\* lines 524-527: leaving the "with ThreadPoolExecutor" block waits for every task
pool_joined(ts) == ts = { }

\* lines 517-538: without products no pool is made; with products the pool is
\* joined; then the dictionary is returned
Return ==
    /\ \/ pc = "return"
       \/ pc = "enrich" /\ pool_joined(tasks)
    /\ result' = [ NoResult EXCEPT
                     !.kind = "search", !.ok = TRUE,
                     !.iterations = iterations,
                     !.used_parameters = param_rows(used),
                     !.dropped_parameters = param_rows(dropped),
                     !.products = products_norm,
                     !.base_tokens = base_tokens(mpn) ]
    /\ pc' = "done"
    /\ UNCHANGED << mpn, require_results, base_mode, base, triples,
                    base_keywords, used, dropped, iterations, products_norm, raw, idx,
                    queries, search_log, token_requests, credential, token, enrich_vars,
                    rank_vars, pool_vars >>

Next ==
    \/ MissingMpn
    \/ FetchBase
    \/ GetToken
    \/ BeginAttempt
    \/ FilterQuery
    \/ KeywordQuery
    \/ Decide
    \/ AttachReasons
    \/ \E i \in tasks : Enrich(i)
    \/ Return

Spec == Init /\ [][Next]_vars

\* ------------------------------------------------- claims about the search

Reverse(q) == [ i \in DOMAIN q |-> q[Len(q) + 1 - i] ]
Front(q) == SubSeq(q, 1, Len(q) - 1)
Searching == pc \in { "attempt", "filters", "keywords", "decide", "reasons", "enrich", "return" }
Returned == pc = "done" /\ result.kind = "search"
MpnsOf(products) == [ i \in DOMAIN products |-> products[i].mpn ]
\* the most catalog queries one attempt can make: four filter bodies, and the base
\* keywords, the joined values and one string per top value
MaxQueries == 4 + 2 + TopValues

\* C1: the relaxation loop makes at most N+1 attempts for N usable parameters, every
\* attempt makes a bounded number of queries and always has a next query or a
\* decision to make, and a search that requires results returns either products (FOUND) or
\* no product, no parameter in use and all N parameters dropped (EXHAUSTED).
C1_Termination ==
    /\ Len(search_log) <= Len(triples) + 1
    /\ Len(iterations) <= Len(triples) + 1
    /\ Len(queries) <= MaxQueries
    /\ pc = "filters" => idx \in DOMAIN filter_candidates(base_keywords, used)
    /\ pc = "keywords" => idx \in DOMAIN keyword_queries(base_keywords, used)
    /\ pc = "enrich" => tasks \subseteq DOMAIN products_norm
    /\ (Returned /\ require_results) =>
         \/ result.products # << >>
         \/ /\ result.used_parameters = << >>
            /\ result.products = << >>
            /\ Len(result.dropped_parameters) = Len(triples)
            /\ RangeOf(result.dropped_parameters) = RangeOf(param_rows(triples))

\* a search that requires results ends exhausted, after N+1 attempts with N >= 2
C1_Witness ==
    /\ Returned /\ require_results
    /\ result.products = << >>
    /\ Len(triples) >= 2
    /\ Len(result.iterations) = Len(triples) + 1

\* C2: from one attempt to the next exactly one parameter leaves the used list, and
\* it is the last one; used is a prefix of the initial list and dropped holds the
\* removed parameters in removal order, so used followed by dropped reversed is the
\* initial list.
C2_MonotonicRelaxation ==
    (Searching \/ Returned) =>
      /\ used \o Reverse(dropped) = triples
      /\ \A i \in DOMAIN search_log :
           /\ search_log[i] = SubSeq(triples, 1, Len(triples) - (i - 1))
           /\ i > 1 => search_log[i] = Front(search_log[i - 1])
      /\ \A i \in DOMAIN iterations :
           /\ iterations[i].used_value_count = Len(triples) - (i - 1)
           /\ i > 1 => iterations[i].used_value_count
                         = iterations[i - 1].used_value_count - 1
      /\ \A i \in DOMAIN dropped : dropped[i] = triples[Len(triples) + 1 - i]

\* two parameters have been dropped, the lowest-ranked first
C2_Witness ==
    /\ Returned
    /\ Len(dropped) = 2
    /\ dropped[1] # dropped[2]
    /\ Len(result.iterations) = 3

\* C3: no returned product has the normalized part number of the original part,
\* in any family mode and whether or not results are required.
C3_SelfExclusion ==
    Returned =>
      \A i \in DOMAIN result.products :
        norm_mpn(result.products[i].mpn) # norm_mpn(mpn)

\* the last response held the original part (written differently) and other
\* products, and the search returned products
C3_Witness ==
    /\ Returned
    /\ result.products # << >>
    /\ \E i \in DOMAIN raw :
         /\ norm_mpn(raw[i].ManufacturerPartNumber) = norm_mpn(mpn)
         /\ raw[i].ManufacturerPartNumber # mpn

\* C4: with exclude_base no returned product's normalized part number contains a
\* base token of the original part (so 4414F-ND is not returned for 4414F), with
\* only_base every returned product's does, and with no family mode the returned
\* products are the products of the last response without the original part.
C4_FamilyFilter ==
    Returned =>
      LET tokens == RangeOf(base_tokens(mpn)) \ { << >> }
          InFamily(p) == \E t \in tokens : IsSubstring(t, norm_mpn(p.mpn))
      IN  /\ base_mode = "exclude_base" =>
               \A i \in DOMAIN result.products : ~InFamily(result.products[i])
          /\ (base_mode = "exclude_base" /\ mpn = MPN_4414F) =>
               \A i \in DOMAIN result.products :
                 result.products[i].mpn # << "4", "4", "1", "4", "F", "-", "N", "D" >>
          /\ base_mode = "only_base" =>
               \A i \in DOMAIN result.products : InFamily(result.products[i])
          /\ base_mode = "none" =>
               MpnsOf(result.products)
                 = MpnsOf(exclude_self(normalize_products_dk(raw), norm_mpn(mpn)))

\* with exclude_base a response with a part of the family and another part gives
\* only the other part
C4_Witness ==
    /\ Returned
    /\ base_mode = "exclude_base"
    /\ result.products # << >>
    /\ Len(result.products) < Len(exclude_self(normalize_products_dk(raw), norm_mpn(mpn)))

\* C8: every attempt appends exactly one record: the records are as many as the
\* attempts made, their ordinals are 1, 2, ..., k, and each record counts the
\* parameters its attempt searched with, used and dropped adding up to N.
C8_AuditTrail ==
    /\ (Searching \/ Returned) =>
         /\ Len(iterations) =
              IF pc \in { "filters", "keywords", "decide" }
                THEN Len(search_log) - 1 ELSE Len(search_log)
         /\ \A i \in DOMAIN iterations :
              /\ iterations[i].attempt = i
              /\ iterations[i].used_value_count = Len(search_log[i])
              /\ iterations[i].used_values = param_rows(search_log[i])
              /\ iterations[i].used_value_count + iterations[i].dropped_value_count
                   = Len(triples)
    /\ Returned =>
         /\ result.iterations = iterations
         /\ Len(result.iterations) = Len(search_log)

\* a search of three attempts has returned
C8_Witness ==
    /\ Returned
    /\ Len(search_log) = 3
    /\ result.iterations[3].results > 0

\* C9: a search that does not require results returns after exactly one attempt,
\* with all the parameters in use and none dropped.
C9_NoRetryWhenNotRequired ==
    (Returned /\ ~require_results) =>
      /\ Len(result.iterations) = 1
      /\ Len(search_log) = 1
      /\ result.used_parameters = param_rows(triples)
      /\ result.dropped_parameters = << >>

\* a search that does not require results returns with no product and parameters
C9_Witness ==
    /\ Returned /\ ~require_results
    /\ result.products = << >>
    /\ result.iterations[1].results = 0
    /\ Len(triples) >= 2

\* C10: a part without usable parameters gives ok with no product, no iteration,
\* no used and no dropped parameter and a note, and neither the token nor a search
\* nor an enrichment lookup has been asked for.
C10_NoUsableParameters ==
    (pc # "call" /\ result.kind # "error" /\ triples = << >>) =>
      /\ pc = "done"
      /\ result.kind = "no_params"
      /\ result.ok
      /\ result.products = << >>
      /\ result.iterations = << >>
      /\ result.used_parameters = << >>
      /\ result.dropped_parameters = << >>
      /\ result.note # ""
      /\ result.error = ""
      /\ token_requests = 0
      /\ search_log = << >>
      /\ queries = << >>
      /\ tasks = { }
      /\ enrich_lookups = 0

\* the lookup ranked a parameter, but none is usable
C10_Witness ==
    /\ pc = "done"
    /\ result.kind = "no_params"
    /\ base.ranked_parameters # << >>

\* C11 as stated: whenever the credential is unavailable the call ends with ok
\* false and an error message, and without search query or enrichment.
C11_Original ==
    (pc = "done" /\ ~Truthy(credential)) =>
      /\ result.kind = "error"
      /\ ~result.ok
      /\ result.error # ""
      /\ search_log = << >>
      /\ futs = << >>

\* C11: when the part has a usable parameter and the credential is unavailable
\* (the token request gives nothing, or an empty string), the call ends with ok
\* false and an error message; and without credential no search query is ever sent,
\* no attempt recorded and no enrichment task started.  A part without usable
\* parameter returns before the token is asked for.
C11_TokenUnavailable ==
    /\ ~Truthy(credential) =>
         /\ search_log = << >>
         /\ queries = << >>
         /\ iterations = << >>
         /\ futs = << >>
         /\ tasks = { }
         /\ enrich_lookups = 0
         /\ pc \in { "call", "token", "done" }
    /\ (pc = "done" /\ ~Truthy(credential) /\ triples # << >>) =>
         /\ token = credential
         /\ token_requests = 1
         /\ result.kind = "error"
         /\ ~result.ok
         /\ result.error # ""
         /\ result.products = << >>
    /\ (pc = "done" /\ token_requests = 0) => token = NoToken

\* a part with usable parameters was refused because the token was an empty string
C11_Witness ==
    /\ pc = "done"
    /\ credential = << >>
    /\ token = << >>
    /\ triples # << >>
    /\ result.kind = "error"

\* the tasks of the pool that have ended, by exception or otherwise
Finished(i) == futs[i].status \in { "data", "empty", "raise", "no_mpn" }

\* C12: a lookup that raises or finds nothing ends only its own task: the other
\* tasks stay in the pool and run to their end (a task ends without data only when
\* every variant was looked up), and the returned products are the products that
\* survived the filtering, in their order, however the tasks ended.
C12_EnrichmentFailureIsolated ==
    /\ pc \in { "enrich", "return" } =>
         /\ MpnsOf(products_norm) = MpnsOf(filtered_products(raw, mpn, base_mode))
         /\ DOMAIN futs = DOMAIN products_norm
         /\ \A i \in DOMAIN futs : i \in tasks <=> futs[i].status = "running"
    /\ Returned =>
         /\ MpnsOf(result.products) = MpnsOf(filtered_products(raw, mpn, base_mode))
         /\ DOMAIN futs = DOMAIN result.products
         /\ \A i \in DOMAIN futs :
              /\ Finished(i)
              /\ futs[i].status = "empty" =>
                   futs[i].tried = Len(mpn_variants(result.products[i].mpn))
              /\ result.products[i].enriched = "yes" <=> futs[i].status = "data"

\* the task of the first product failed with an exception, and the task of the
\* second product went on to find data
C12_Witness ==
    /\ Returned
    /\ Len(futs) = 2
    /\ futs[1].status = "raise"
    /\ futs[2].status = "data"
    /\ result.products[1].enriched = "no"
    /\ result.products[2].enriched = "yes"

\* C13: no enrichment task exists before the relaxation loop has ended; the tasks
\* are those of the final product list, one per product; and when the call has
\* returned every task has finished, so the returned products are the products as
\* the tasks left them.
C13_PoolJoinedBeforeReturn ==
    /\ pc \notin { "enrich", "return", "done" } =>
         /\ futs = << >>
         /\ tasks = { }
         /\ enrich_lookups = 0
    /\ pc = "enrich" =>
         /\ products_norm # << >>
         /\ DOMAIN futs = DOMAIN products_norm
         /\ iterations[Len(iterations)].results = Len(futs)
         /\ Len(iterations) = Len(search_log)
    /\ pc = "done" =>
         /\ tasks = { }
         /\ \A i \in DOMAIN futs : Finished(i)
         /\ result.kind # "search" => futs = << >>
    /\ Returned =>
         /\ result.products = products_norm
         /\ DOMAIN futs = DOMAIN result.products

\* the call returned after a second attempt and after two tasks made three
\* lookups or more between them
C13_Witness ==
    /\ Returned
    /\ Len(result.iterations) >= 2
    /\ Len(futs) = 2
    /\ enrich_lookups >= 3
    /\ futs[1].tried >= 1
    /\ futs[2].tried >= 2

\* the last record of the audit trail
LastRecord == iterations[Len(iterations)]
AfterLoop == pc \in { "reasons", "enrich", "return" } \/ Returned

\* C14: when results are required, every record but the last counts no product, and
\* a parameter is dropped only after an attempt whose filtered list is empty (even
\* if its response held products); the attempt that leaves products after the
\* filters is the last: the loop has ended, nothing is dropped or searched after
\* it, and its count is the length of the returned products.
C14_StopAtFirstNonEmpty ==
    /\ require_results =>
         \A i \in DOMAIN iterations : i < Len(iterations) => iterations[i].results = 0
    /\ (pc = "attempt" /\ iterations # << >>) =>
         /\ require_results
         /\ LastRecord.results = 0
         /\ filtered_products(raw, mpn, base_mode) = << >>
         /\ Len(dropped) = Len(iterations)
    /\ (iterations # << >> /\ LastRecord.results > 0) =>
         /\ AfterLoop
         /\ Len(search_log) = Len(iterations)
         /\ used = search_log[Len(search_log)]
         /\ Len(dropped) = Len(iterations) - 1
    /\ AfterLoop =>
         /\ LastRecord.results = Len(products_norm)
         /\ LastRecord.results = Len(filtered_products(raw, mpn, base_mode))
    /\ Returned => LastRecord.results = Len(result.products)

\* a response held only the original part: the filtered list was empty, so the
\* lowest-ranked parameter was dropped for another attempt
C14_Witness ==
    /\ pc = "attempt"
    /\ require_results
    /\ iterations # << >>
    /\ raw # << >>
    /\ dropped # << >>
    /\ LastRecord.results = 0

\* the parameters the current (or last) attempt searches with, and its queries
AttemptUsed == search_log[Len(search_log)]
FilterQueries == SelectSeq(queries, LAMBDA q : q.kind = "filter")
KeywordQueries == SelectSeq(queries, LAMBDA q : q.kind = "keyword")
\* the shape of a filter body, read from the fields of its rows
ShapeOf(body) ==
    LET row == body.filters[1]
    IN  IF "ValueId" \in DOMAIN row THEN 1
        ELSE IF "ParameterId" \in DOMAIN row /\ "ValueText" \in DOMAIN row THEN 2
        ELSE IF "Value" \in DOMAIN row THEN 3
        ELSE 4

\* C15: the filter queries of an attempt are its filter bodies in their order, the
\* shapes id+value-id, id+value-text, id+value, name+value-text strictly in that
\* order, one query after the other; a filter query that returned a product is the
\* last query of the attempt and its products are the attempt's raw products.
C15_CascadeOrder ==
    search_log # << >> =>
      LET cands == filter_candidates(base_keywords, AttemptUsed)
          fq == FilterQueries
      IN  /\ Len(fq) <= Len(cands)
          /\ \A i \in DOMAIN fq :
               /\ queries[i] = fq[i]
               /\ fq[i].body = cands[i]
               /\ ShapeOf(fq[i].body) = fq[i].body.tier
               /\ \A j \in DOMAIN fq : i < j => ShapeOf(fq[i].body) < ShapeOf(fq[j].body)
               /\ fq[i].n > 0 =>
                    /\ i = Len(queries)
                    /\ pc # "filters" /\ pc # "keywords"
                    /\ Len(raw) = fq[i].n
               /\ i < Len(fq) => fq[i].n = 0
          /\ pc = "filters" =>
               /\ idx = Len(fq) + 1
               /\ raw = << >>
               /\ queries = fq

\* the first two shapes found nothing and the third found products
C15_Witness ==
    /\ pc = "decide"
    /\ Len(queries) = 3
    /\ queries[1].n = 0
    /\ queries[2].n = 0
    /\ queries[3].kind = "filter"
    /\ ShapeOf(queries[3].body) = 3
    /\ queries[3].n > 0
    /\ Len(filter_candidates(base_keywords, used)) = 4

\* whether a parameter supplies the fields a shape requires
Present(x) == x # None /\ x # << >>
Supplies(tier, t) ==
    IF tier = 1 THEN Present(t.id) /\ Present(t.value_id)
    ELSE IF tier \in { 2, 3 } THEN Present(t.id) /\ Present(t.value)
    ELSE Present(t.name) /\ Present(t.value)
\* the filter row a shape makes of a parameter
RowOf(tier, t) ==
    IF tier = 1 THEN [ ParameterId |-> t.id, ValueId |-> t.value_id ]
    ELSE IF tier = 2 THEN [ ParameterId |-> t.id, ValueText |-> t.value ]
    ELSE IF tier = 3 THEN [ ParameterId |-> t.id, Value |-> t.value ]
    ELSE [ ParameterText |-> t.name, ValueText |-> t.value ]

\* C16: a shape has a filter body in the attempt if and only if a used parameter
\* supplies its fields (1: id and value id; 2 and 3: id and value; 4: name and
\* value); the body holds the rows of exactly those parameters, in rank order,
\* with the base keywords; the bodies keep the order of the shapes; the filter
\* queries sent are these bodies; and an attempt without parameters has no body
\* and sends no filter query.
C16_TierInclusion ==
    search_log # << >> =>
      LET u == AttemptUsed
          cands == filter_candidates(base_keywords, u)
      IN  /\ \A tier \in 1 .. 4 :
               (\E i \in DOMAIN cands : cands[i].tier = tier)
                 <=> (\E k \in DOMAIN u : Supplies(tier, u[k]))
          /\ \A i \in DOMAIN cands :
               LET tier == cands[i].tier
                   q == SelectSeq(u, LAMBDA t : Supplies(tier, t))
               IN  /\ cands[i].Keywords = base_keywords
                   /\ cands[i].RecordCount = RecordCount
                   /\ cands[i].filters = [ k \in DOMAIN q |-> RowOf(tier, q[k]) ]
                   /\ \A j \in DOMAIN cands : i < j => tier < cands[j].tier
          /\ \A i \in DOMAIN FilterQueries : FilterQueries[i].body = cands[i]
          /\ u = << >> => cands = << >> /\ FilterQueries = << >>

\* of two used parameters none has a value id and one has no id: the attempt has
\* no body of the first shape, and its first query has the one row with an id
C16_Witness ==
    /\ pc = "decide"
    /\ Len(used) = 2
    /\ FilterQueries # << >>
    /\ FilterQueries[1].body.tier = 2
    /\ Len(FilterQueries[1].body.filters) = 1
    /\ Len(filter_candidates(base_keywords, used)) = 3

\* C17: a keyword query is sent only after every filter body of the attempt was
\* sent and returned no product, and then the keyword strings are sent in their
\* order up to the first that returns a product; an attempt in which a filter
\* query returned a product has no keyword query, whatever the filters leave of
\* its products; an attempt in which no query returned a product has sent them all.
C17_KeywordAfterFilters ==
    search_log # << >> =>
      LET cands == filter_candidates(base_keywords, AttemptUsed)
          kws == keyword_queries(base_keywords, AttemptUsed)
          fq == FilterQueries
          kq == KeywordQueries
      IN  /\ queries = fq \o kq
          /\ kq # << >> =>
               /\ Len(fq) = Len(cands)
               /\ \A i \in DOMAIN fq : fq[i].n = 0
          /\ (\E i \in DOMAIN fq : fq[i].n > 0) => kq = << >>
          /\ Len(kq) <= Len(kws)
          /\ \A i \in DOMAIN kq :
               /\ kq[i].body.Keywords = kws[i]
               /\ i < Len(kq) => kq[i].n = 0
               /\ kq[i].n > 0 => Len(raw) = kq[i].n /\ pc # "keywords"
          /\ pc = "keywords" => idx = Len(kq) + 1 /\ raw = << >>
          /\ (pc \notin { "filters", "keywords" } /\ result.kind # "raised"
                /\ \A i \in DOMAIN queries : queries[i].n = 0) =>
               Len(queries) = Len(cands) + Len(kws)

\* all four filter bodies and the first keyword string found nothing, and the
\* second keyword string found products
C17_Witness ==
    /\ pc = "decide"
    /\ Len(FilterQueries) = 4
    /\ Len(KeywordQueries) = 2
    /\ KeywordQueries[2].n > 0
    /\ raw # << >>

\* C19: a search response that failed (no response, a body that cannot be parsed, a
\* body without a list of products) counts as an empty response: once a query has
\* been sent the call still returns its dictionary with ok true, it never raises
\* and never returns an error, and an attempt whose queries all failed records no
\* result.
C19_FailedResponseIsEmpty ==
    /\ (search_log # << >> /\ pc = "done") =>
         /\ result.kind = "search"
         /\ result.ok
    /\ (pc \in { "decide", "reasons" } /\ \A i \in DOMAIN queries : queries[i].n = 0) =>
         /\ raw = << >>
         /\ Len(queries) = Len(filter_candidates(base_keywords, AttemptUsed))
                             + Len(keyword_queries(base_keywords, AttemptUsed))

\* ------------------------------------------ one attempt, with more parameters

\* the longest list of usable parameters of an attempt
MaxKwParams == 4

\* usable parameters in rank order: one with both identifiers, one whose value is
\* the first value in lower case, one whose value has two blanks, one with a
\* value id but no id, and one more with both identifiers
KwParamPool ==
    << [ id |-> << "1" >>, name |-> << "V" >>, value |-> << "2", "4", "V" >>,
         value_id |-> << "9" >> ],
       [ id |-> None, name |-> << "U" >>, value |-> << "2", "4", "v" >>,
         value_id |-> None ],
       [ id |-> << "2" >>, name |-> << "A", "i", "r" >>,
         value |-> << "1", " ", " ", "C" >>, value_id |-> None ],
       [ id |-> None, name |-> << "I", "P" >>, value |-> << "I", "P" >>,
         value_id |-> << "7" >> ],
       [ id |-> << "3" >>, name |-> << "S" >>, value |-> << "4", "0" >>,
         value_id |-> << "8" >> ] >>

KwRankedLists == { r \in SubLists(KwParamPool) : Len(r) \in 1 .. MaxKwParams }

\* categories: none, a DC fan, and one that reads like the first value
KwCategories == { None, << "d", "c", " ", "F", "A", "N" >>, << "2", "4", "V" >> }

\* the call has fetched the part, found usable parameters and a token, and stands
\* before the first attempt (line 404)
AttemptInit ==
    /\ pc = "attempt"
    /\ mpn = MPN_4414F
    /\ require_results = TRUE
    /\ base_mode = "none"
    /\ \E c \in KwCategories, ranked \in KwRankedLists :
         /\ base = [ NoBase EXCEPT !.category = c, !.ranked_parameters = ranked ]
         /\ triples = values_from_ranked(ranked)
         /\ used = values_from_ranked(ranked)
         /\ base_keywords = pick_base_keywords([ NoBase EXCEPT !.category = c ])
    /\ dropped = << >>
    /\ iterations = << >>
    /\ products_norm = << >>
    /\ raw = << >>
    /\ idx = 0
    /\ queries = << >>
    /\ search_log = << >>
    /\ token_requests = 1
    /\ credential = << "t" >>
    /\ token = << "t" >>
    /\ tasks = { }
    /\ futs = << >>
    /\ enrich_lookups = 0
    /\ PoolNotStarted
    /\ result = NoResult
    /\ rank_pc = "idle"
    /\ params = << >>
    /\ api_key = FALSE
    /\ content = NoContent
    /\ rank_result = NoRanking

\* lines 409-415: _search_dk_with_filters, then _keyword_fallback
AttemptNext ==
    \/ BeginAttempt
    \/ FilterQuery
    \/ KeywordQuery

AttemptSpec == AttemptInit /\ [][AttemptNext]_vars

\* the value of a parameter as a keyword token: runs of blanks become one blank
TokenOf(t) == CompactSpaces(Strip(t.value))
\* the parameters whose values the keyword strings use: the first three
TopOf(u) == SubSeq(u, 1, IF Len(u) < 3 THEN Len(u) ELSE 3)
\* the keyword strings in the order of the claim: the base keywords, the base
\* keywords with the top values, the base keywords with each top value
KeywordPlan(base_kw, u) ==
    LET b == IF base_kw = << >> THEN << >> ELSE << base_kw >>
        top == TopOf(u)
    IN  b \o << JoinSpace(b \o [ i \in DOMAIN top |-> TokenOf(top[i]) ]) >>
          \o [ i \in DOMAIN top |-> JoinSpace(b \o << TokenOf(top[i]) >>) ]
\* the place of a sent string in the plan: the first entry that reads the same
PlaceOf(kw, plan) ==
    CHOOSE j \in DOMAIN plan :
      /\ Lower(Strip(plan[j])) = Lower(kw)
      /\ \A h \in DOMAIN plan : Lower(Strip(plan[h])) = Lower(kw) => j <= h

\* C18: the keyword strings of a fallback round are those of the plan (base keywords
\* alone, then with the values of the top 3 parameters at most, then with each of
\* these values alone) in that order, without the empty ones and without those
\* that read like an earlier one when case is ignored: every string sent is the
\* first entry of the plan that reads so, the places increase, no two strings sent
\* read the same, and a round without products has sent every entry of the plan
\* that is not empty, once.
C18_KeywordPlan ==
    search_log # << >> =>
      LET plan == KeywordPlan(base_keywords, AttemptUsed)
          kws == keyword_queries(base_keywords, AttemptUsed)
          kq == KeywordQueries
      IN  /\ \A i \in DOMAIN kq : kq[i].body.Keywords = kws[i]
          /\ Len(kq) <= Len(kws)
          /\ \A i \in DOMAIN kws :
               /\ kws[i] # << >>
               /\ \E j \in DOMAIN plan : Lower(Strip(plan[j])) = Lower(kws[i])
               /\ kws[i] = Strip(plan[PlaceOf(kws[i], plan)])
               /\ \A h \in DOMAIN kws :
                    i < h => /\ Lower(kws[i]) # Lower(kws[h])
                             /\ PlaceOf(kws[i], plan) < PlaceOf(kws[h], plan)
          /\ \A j \in DOMAIN plan :
               Strip(plan[j]) # << >> =>
                 \E i \in DOMAIN kws : Lower(kws[i]) = Lower(Strip(plan[j]))
          /\ (pc = "decide" /\ \A i \in DOMAIN queries : queries[i].n = 0) =>
               Len(kq) = Len(kws)

\* four parameters, the second reading like the first in another case: the round
\* sent the base keywords, the three top values together, and two of the three
\* single values, and found nothing
C18_Witness ==
    /\ pc = "decide"
    /\ Len(used) = 4
    /\ base_keywords # << >>
    /\ Lower(used[1].value) = Lower(used[2].value)
    /\ used[1].value # used[2].value
    /\ Len(KeywordQueries) = 4
    /\ \A i \in DOMAIN queries : queries[i].n = 0

\* ------------------------------------- the match reasons, with more products

\* the longest list of usable parameters, and the longest list of products
MaxReasonParams == 7
MaxReasonProducts == 11

\* the i-th usable parameter of a part
ReasonParam(i) ==
    [ id |-> << DigitChars[i + 1] >>, name |-> << "N", DigitChars[i + 1] >>,
      value |-> << "v", DigitChars[i + 1] >>, value_id |-> None ]

\* match reasons a normalized record carries of its own
OwnReasons == << << "o", "w", "n" >> >>

\* what line 141 makes of a catalog record: normalize_digikey_result is not part of
\* this repository, so its record may carry match reasons of its own ("O") or no
\* "match_reasons" key ("P"); _brief_fallback always gives the empty list ("F").
\* The first letter of the part number tells which.
NormalizedAs(kind, i) ==
    [ mpn |-> << kind, Uppers[i] >>,
      match_reasons |-> IF kind = "O" THEN OwnReasons
                        ELSE IF kind = "F" THEN << >> ELSE None,
      enriched |-> "no" ]

\* the product lists after the filters: records of one normalizer, and at most one
\* record with its own reasons
ReasonProductLists ==
    { [ i \in 1 .. n |-> NormalizedAs(IF i = own THEN "O" ELSE kind, i) ] :
        n \in 1 .. MaxReasonProducts, own \in 0 .. MaxReasonProducts, kind \in { "P", "F" } }

\* the loop has ended after one attempt that was not required to find anything
\* (line 440), and the call stands before line 450
ReasonsInit ==
    /\ pc = "reasons"
    /\ mpn = MPN_4414F
    /\ require_results = FALSE
    /\ base_mode = "none"
    /\ \E n \in 1 .. MaxReasonParams, products \in ReasonProductLists :
         LET ts == [ i \in 1 .. n |-> ReasonParam(i) ]
         IN  /\ base = [ NoBase EXCEPT !.ranked_parameters = ts ]
             /\ triples = ts
             /\ used = ts
             /\ products_norm = products
             /\ raw = [ i \in DOMAIN products |->
                          [ ManufacturerPartNumber |-> products[i].mpn ] ]
             /\ iterations = << iteration_record(<< >>, ts, << >>, products) >>
             /\ search_log = << ts >>
             /\ queries = << [ kind |-> "filter",
                               body |-> filter_candidates(<< >>, ts)[1],
                               n |-> Len(products) ] >>
    /\ base_keywords = << >>
    /\ dropped = << >>
    /\ idx = 0
    /\ token_requests = 1
    /\ credential = << "t" >>
    /\ token = << "t" >>
    /\ tasks = { }
    /\ futs = << >>
    /\ enrich_lookups = 0
    /\ PoolNotStarted
    /\ result = NoResult
    /\ rank_pc = "idle"
    /\ params = << >>
    /\ api_key = FALSE
    /\ content = NoContent
    /\ rank_result = NoRanking

\* lines 450-452
ReasonsNext == AttachReasons

ReasonsSpec == ReasonsInit /\ [][ReasonsNext]_vars

\* the name/value pairs of the first six parameters in use, at most
ExpectedReasons ==
    [ k \in 1 .. (IF Len(used) < 6 THEN Len(used) ELSE 6) |->
        used[k].name \o << " ", "=", " " >> \o used[k].value ]

\* C20: once the reasons are attached, every product that came without match
\* reasons has the pairs of the first min(6, |used|) parameters, in rank order, and
\* a product that came with its own reasons has kept them, whatever the place of
\* the product in the list.  (A product that came with the empty list of
\* _brief_fallback may have kept it or have the pairs.)
C20_MatchReasons ==
    pc \in { "enrich", "return", "done" } =>
      \A i \in DOMAIN products_norm :
        LET p == products_norm[i]
        IN  /\ Head(p.mpn) = "O" => p.match_reasons = OwnReasons
            /\ Head(p.mpn) = "P" => p.match_reasons = ExpectedReasons
            /\ Head(p.mpn) = "F" => p.match_reasons \in { << >>, ExpectedReasons }

\* ------------------------------------------------- the enrichment pool

\* the longest list of products handed to the pool, and the most lookup variants
\* the part numbers of a list have together
MaxPool == 2
MaxVariants == 5

\* lines 520-523: the default and the largest number of workers
DefaultWorkers == 8
MaxWorkers == 32

\* the values of REPL_ENRICH_WORKERS: not set, empty, not a number, and numbers
\* below, inside and above the range
Settings ==
    { None, << >>, << "x", "1" >>, << "-", "3" >>, << "0" >>, << "2" >>,
      << " ", "+", "1" >>, << "4", "0" >> }

RECURSIVE DigitsValue(_, _)
DigitsValue(s, acc) ==
    IF s = << >> THEN acc ELSE DigitsValue(Tail(s), 10 * acc + (DigitVal(Head(s)) - 1))

\* int(text): blanks around, an optional sign, then digits, with single underscores
\* allowed between digits; anything else raises ValueError
int_of(text) ==
    LET t == Strip(text)
        signed == t # << >> /\ Head(t) \in { "+", "-" }
        body == IF signed THEN Tail(t) ELSE t
        digits == SelectSeq(body, IsDigit)
        well_formed ==
            /\ body # << >>
            /\ \A i \in DOMAIN body :
                 \/ IsDigit(body[i])
                 \/ /\ body[i] = "_"
                    /\ i > 1 /\ i < Len(body)
                    /\ IsDigit(body[i - 1]) /\ IsDigit(body[i + 1])
    IN  IF ~well_formed
          THEN [ ok |-> FALSE, value |-> 0 ]
          ELSE [ ok |-> TRUE,
                 value |-> IF signed /\ Head(t) = "-" THEN 0 - DigitsValue(digits, 0)
                           ELSE DigitsValue(digits, 0) ]

Max(a, b) == IF a > b THEN a ELSE b

\* a worker count taken from the setting as it is
worker_count_unclamped(s) ==
    LET parsed == int_of(IF s = None THEN << "8" >> ELSE s)
    IN  IF parsed.ok THEN parsed.value ELSE DefaultWorkers

\* lines 519-523
worker_count(s) ==
    LET parsed == int_of(IF s = None THEN << "8" >> ELSE s)
        w == IF parsed.ok THEN parsed.value ELSE DefaultWorkers
    IN  Max(1, Min(MaxWorkers, w))

\* the normalized records handed to the pool: part numbers with four, three, one
\* and no lookup variant, with links that are populated, empty or absent
Candidate(part, url, dk, attrs) ==
    [ mpn |-> part, manufacturer |-> << "M" >>, product_url |-> url,
      description |-> << "d" >>, lifecycle |-> << "A", "c", "t", "i", "v", "e" >>,
      price |-> None, availability |-> << "7" >>, match_reasons |-> << << "r" >> >>,
      attributes |-> attrs, parameters |-> None, dk_part |-> dk, mouser_part |-> None ]

CandidatePool ==
    << Candidate(<< "A", "B", "-", "1", " ", "2" >>, << "u", "1" >>, None, << >>),
       Candidate(<< "X", "emdash", "1" >>, << >>, << "d", "1" >>,
                 << [ k |-> << "K" >>, v |-> << "o", "l", "d" >> ] >>),
       Candidate(<< "X", "1" >>, << >>, None, << >>),
       Candidate(<< " " >>, << >>, None, << >>) >>

RECURSIVE VariantCount(_)
VariantCount(c) ==
    IF c = << >> THEN 0 ELSE Len(mpn_variants(Head(c).mpn)) + VariantCount(Tail(c))

CandidateLists ==
    { c \in SubLists(CandidatePool) : Len(c) \in 1 .. MaxPool /\ VariantCount(c) <= MaxVariants }

\* what fetch_attributes_for_mpn gives for a variant: a dictionary, or something
\* true that is not a dictionary
Answer(attrs, ranked, url, dk, mouser) ==
    [ kind |-> "dict", attributes |-> attrs, ranked_parameters |-> ranked,
      product_url |-> url, dk_part |-> dk, mouser_part |-> mouser ]

NoAnswer == Answer(<< >>, << >>, None, None, None)

LookupAnswers ==
    { NoAnswer,
      Answer(<< >>, << >>, << "u", "2" >>, << "d", "2" >>, << "m", "2" >>),
      Answer(<< [ k |-> << "S" >>, v |-> << "4", "0" >> ] >>,
             << ParamPool[1], ParamPool[4] >>, << "u", "3" >>, None, None),
      [ NoAnswer EXCEPT !.kind = "notdict" ] }

\* the objects a task can write: a product of the list, or the process's sys.stdout
ProductObject(i) == << "product", i >>
StdoutObject == << "sys.stdout", 0 >>

\* the null sink the lookups of task i write to
Sink(i) == << "devnull", i >>

\* line 525: a task that no worker has picked up yet
QueuedTask == [ pc |-> "queued", k |-> 0, saved |-> Console, looked |-> << >> ]

\* the call stands before line 517, after one attempt that found the candidates
PoolInit ==
    /\ pc = "pool"
    /\ mpn = MPN_4414F
    /\ require_results = FALSE
    /\ base_mode = "none"
    /\ \E cands \in CandidateLists :
         LET ts == values_from_ranked(<< ParamPool[1] >>)
         IN  /\ base = [ NoBase EXCEPT !.ranked_parameters = << ParamPool[1] >> ]
             /\ triples = ts
             /\ used = ts
             /\ products_norm = cands
             /\ raw = [ i \in DOMAIN cands |-> [ ManufacturerPartNumber |-> cands[i].mpn ] ]
             /\ iterations = << iteration_record(<< >>, ts, << >>, cands) >>
             /\ search_log = << ts >>
             /\ queries = << [ kind |-> "filter",
                               body |-> filter_candidates(<< >>, ts)[1],
                               n |-> Len(cands) ] >>
    /\ base_keywords = << >>
    /\ dropped = << >>
    /\ idx = 0
    /\ token_requests = 1
    /\ credential = << "t" >>
    /\ token = << "t" >>
    /\ tasks = { }
    /\ futs = << >>
    /\ enrich_lookups = 0
    /\ result = NoResult
    /\ setting \in Settings
    /\ workers = 0
    /\ threads = << >>
    /\ sys_stdout = Console
    /\ writes = { }
    /\ rank_pc = "idle"
    /\ params = << >>
    /\ api_key = FALSE
    /\ content = NoContent
    /\ rank_result = NoRanking

pool_frame == << mpn, require_results, base_mode, base, triples, base_keywords, used,
                 dropped, iterations, raw, idx, queries, search_log, token_requests,
                 credential, token, futs, result, setting, rank_vars >>

\* lines 517-525: the pool is made and one task per product is submitted
StartPool ==
    /\ pc = "pool"
    /\ workers' = worker_count(setting)
    /\ threads' = [ i \in DOMAIN products_norm |-> QueuedTask ]
    /\ tasks' = DOMAIN products_norm
    /\ pc' = IF products_norm # << >> THEN "enrich" ELSE "return"
    /\ UNCHANGED << products_norm, enrich_lookups, sys_stdout, writes, pool_frame >>

\* the tasks a worker is executing
Executing == { i \in DOMAIN threads : threads[i].pc \in { "enter", "inside", "retry" } }

\* a pool that starts a task whenever one is queued
worker_free_always(n, w) == TRUE

\* ThreadPoolExecutor(max_workers = w): a task starts only on a free worker
worker_free(n, w) == n < w

\* lines 481-489: a worker takes the next queued task; a product without part
\* number ends its task at once (line 485)
StartTask(i) ==
    /\ pc = "enrich"
    /\ threads[i].pc = "queued"
    /\ \A j \in 1 .. i - 1 : threads[j].pc # "queued"
    /\ worker_free(Cardinality(Executing), workers)
    /\ IF mpn_variants(products_norm[i].mpn) = << >>
         THEN /\ threads' = [ threads EXCEPT ![i].pc = "done" ]
              /\ tasks' = tasks \ { i }
         ELSE /\ threads' = [ threads EXCEPT ![i].pc = "enter", ![i].k = 1 ]
              /\ tasks' = tasks
    /\ UNCHANGED << pc, products_norm, enrich_lookups, workers, sys_stdout, writes,
                    pool_frame >>

\* line 342, redirect_stdout.__enter__: the task keeps what sys.stdout refers to
\* and points sys.stdout, for the whole process, to its null sink
EnterQuiet(i) ==
    /\ pc = "enrich"
    /\ threads[i].pc = "enter"
    /\ threads' = [ threads EXCEPT ![i].pc = "inside", ![i].saved = sys_stdout ]
    /\ sys_stdout' = Sink(i)
    /\ writes' = writes \cup { [ by |-> i, to |-> StdoutObject ] }
    /\ UNCHANGED << pc, products_norm, tasks, enrich_lookups, workers, pool_frame >>

\* line 491: the lookup gave attributes or ranked parameters
lookup_succeeded(add) ==
    add.kind = "dict" /\ (add.attributes # << >> \/ add.ranked_parameters # << >>)

\* a loop that goes on to the next variant after a success
loop_ends_never_early(add, k, variants) == k = Len(variants)

\* lines 489-492: the loop over the variants ends with a success or the last variant
loop_ends(add, k, variants) == lookup_succeeded(add) \/ k = Len(variants)

\* a backfill that replaces the links of the record
link_after_overwrite(old, new) == IF Truthy(new) THEN new ELSE old

\* lines 504-509: a link of the lookup is taken when the record has none
link_after(old, new) == IF Truthy(new) /\ ~Truthy(old) THEN new ELSE old

\* lines 495-509: what the task writes into its product from the last lookup
enriched_with(p, add) ==
    [ p EXCEPT
        !.attributes = IF add.attributes # << >> THEN add.attributes ELSE @,
        !.parameters = IF add.ranked_parameters # << >>
                         THEN values_from_ranked(add.ranked_parameters) ELSE @,
        !.product_url = link_after(@, add.product_url),
        !.dk_part = link_after(@, add.dk_part),
        !.mouser_part = link_after(@, add.mouser_part) ]

\* lines 489-515 after the lookup of variant k has answered add: the task goes to
\* the next variant, or leaves the loop and writes into its product; an answer that
\* is not a dictionary raises at line 495 and the task ends without writing
AfterAnswer(i, add, looked) ==
    LET variants == mpn_variants(products_norm[i].mpn)
        k == threads[i].k
    IN  IF ~loop_ends(add, k, variants)
          THEN /\ threads' = [ threads EXCEPT ![i].pc = "enter", ![i].k = k + 1,
                                             ![i].looked = looked ]
               /\ UNCHANGED << products_norm, tasks, writes >>
          ELSE /\ threads' = [ threads EXCEPT ![i].pc = "done", ![i].looked = looked ]
               /\ tasks' = tasks \ { i }
               /\ IF add.kind = "dict"
                    THEN /\ products_norm' =
                              [ products_norm EXCEPT ![i] = enriched_with(@, add) ]
                         /\ writes' = writes \cup { [ by |-> i, to |-> ProductObject(i) ] }
                    ELSE UNCHANGED << products_norm, writes >>

\* the lookups of task i so far, with the one that has just answered add (or
\* raised): the variant looked up, and whether line 491 takes it for a success
Looked(i, add) ==
    Append(threads[i].looked,
           [ mv |-> mpn_variants(products_norm[i].mpn)[threads[i].k],
             ok |-> lookup_succeeded(add), raised |-> add.kind = "raised" ])

\* line 343 and redirect_stdout.__exit__: the lookup answers inside the with block
\* and sys.stdout is pointed back to what the task kept
LookupQuiet(i) ==
    /\ pc = "enrich"
    /\ threads[i].pc = "inside"
    /\ sys_stdout' = threads[i].saved
    /\ enrich_lookups' = enrich_lookups + 1
    /\ \E add \in LookupAnswers : AfterAnswer(i, add, Looked(i, add))
    /\ UNCHANGED << pc, workers, pool_frame >>

\* line 343 raises: sys.stdout is pointed back and the handler of line 344 is next
LookupRaises(i) ==
    /\ pc = "enrich"
    /\ threads[i].pc = "inside"
    /\ sys_stdout' = threads[i].saved
    /\ enrich_lookups' = enrich_lookups + 1
    /\ threads' = [ threads EXCEPT ![i].pc = "retry",
                                   ![i].looked = Looked(i, [ NoAnswer EXCEPT !.kind = "raised" ]) ]
    /\ UNCHANGED << pc, products_norm, tasks, workers, writes, pool_frame >>

\* line 345: the handler looks the variant up again, without redirection
LookupAgain(i) ==
    /\ pc = "enrich"
    /\ threads[i].pc = "retry"
    /\ enrich_lookups' = enrich_lookups + 1
    /\ \E add \in LookupAnswers : AfterAnswer(i, add, Looked(i, add))
    /\ UNCHANGED << pc, workers, sys_stdout, pool_frame >>

\* line 345 raises too: line 511 catches it and the task ends without writing
LookupAgainRaises(i) ==
    /\ pc = "enrich"
    /\ threads[i].pc = "retry"
    /\ enrich_lookups' = enrich_lookups + 1
    /\ threads' = [ threads EXCEPT ![i].pc = "done",
                                   ![i].looked = Looked(i, [ NoAnswer EXCEPT !.kind = "raised" ]) ]
    /\ tasks' = tasks \ { i }
    /\ UNCHANGED << pc, products_norm, workers, sys_stdout, writes, pool_frame >>

PoolNext ==
    \/ StartPool
    \/ \E i \in DOMAIN threads : StartTask(i)
    \/ \E i \in DOMAIN threads : EnterQuiet(i)
    \/ \E i \in DOMAIN threads : LookupQuiet(i)
    \/ \E i \in DOMAIN threads : LookupRaises(i)
    \/ \E i \in DOMAIN threads : LookupAgain(i)
    \/ \E i \in DOMAIN threads : LookupAgainRaises(i)
    \/ Return

PoolSpec == PoolInit /\ [][PoolNext]_vars

\* ---------------------------------------- claims about the enrichment pool

\* the variants of the part numbers of the pool, written out: the part number, the
\* part number without dashes, with a blank for each run of dashes, and its first
\* token, without repetitions
ExpectedVariants(part) ==
    CASE part = << "A", "B", "-", "1", " ", "2" >> ->
           << << "A", "B", "-", "1", " ", "2" >>, << "A", "B", "1", " ", "2" >>,
              << "A", "B", " ", "1", " ", "2" >>, << "A", "B", "-", "1" >> >>
      [] part = << "X", "emdash", "1" >> ->
           << << "X", "emdash", "1" >>, << "X", "1" >>, << "X", " ", "1" >> >>
      [] part = << "X", "1" >> -> << << "X", "1" >> >>
      [] OTHER -> << >>

\* C21: the lookups of a task go through the variants of its part number in the
\* fixed order, starting with the exact part number (a variant is looked up again
\* only when its lookup raised); no lookup follows a successful one; at most four
\* variants are tried; a task that ended without a success and without an exception
\* has tried every variant; a product with a blank part number has no lookup.
C21_LookupOrder ==
    \A i \in DOMAIN threads :
      LET L == threads[i].looked
          E == ExpectedVariants(products_norm[i].mpn)
      IN  /\ \A n \in DOMAIN L :
               \E j \in DOMAIN E :
                 /\ L[n].mv = E[j]
                 /\ n = 1 => j = 1
                 /\ n > 1 => \/ j > 1 /\ L[n - 1].mv = E[j - 1] /\ ~L[n - 1].raised
                             \/ L[n - 1].mv = E[j] /\ L[n - 1].raised
          /\ \A n \in 1 .. Len(L) - 1 : ~L[n].ok
          /\ Cardinality({ L[n].mv : n \in DOMAIN L }) <= 4
          /\ threads[i].pc = "done" /\ L # << >> /\ ~L[Len(L)].ok /\ ~L[Len(L)].raised
               => L[Len(L)].mv = E[Len(E)]
          /\ threads[i].pc = "done" /\ L = << >> => E = << >>
          /\ Strip(products_norm[i].mpn) = << >> => L = << >>

\* a task with four variants has ended with the success of its second lookup, and
\* a task with a blank part number has ended
C21_Witness ==
    /\ Len(threads) = 2
    /\ threads[1].pc = "done"
    /\ Len(ExpectedVariants(products_norm[1].mpn)) = 4
    /\ Len(threads[1].looked) = 2
    /\ threads[1].looked[2].ok
    /\ threads[2].pc = "done"
    /\ products_norm[2].mpn = << " " >>

\* the record of product i as the pool received it
Received(i) ==
    CHOOSE c \in RangeOf(CandidatePool) : c.mpn = products_norm[i].mpn

Links == { "product_url", "dk_part", "mouser_part" }

\* the fields no enrichment touches are as received, and a link that was populated
\* is as received
FrameKept ==
    \A i \in DOMAIN products_norm :
      LET p == products_norm[i]
          o == Received(i)
      IN  /\ \A f \in { "mpn", "manufacturer", "description", "lifecycle", "price",
                        "availability", "match_reasons" } : p[f] = o[f]
          /\ \A f \in Links : Truthy(o[f]) => p[f] = o[f]

\* C22: enrichment writes only the attribute map, the parameter rows and the links
\* that were missing: a populated product_url, dk_part or mouser_part is never
\* overwritten, part number, manufacturer, description, lifecycle, price,
\* availability and match reasons stay as they were, and a link is backfilled only
\* by a task one of whose lookups succeeded.
C22_EnrichmentFrame ==
    /\ FrameKept
    /\ \A i \in DOMAIN threads :
         (\E f \in Links : products_norm[i][f] # Received(i)[f])
           => \E n \in DOMAIN threads[i].looked : threads[i].looked[n].ok

\* the worker count the settings of the model stand for: 8 without a setting and
\* for a setting that is not an integer, otherwise the integer brought into 1 .. 32
ExpectedWorkers ==
    CASE setting = None -> 8
      [] setting = << >> -> 8
      [] setting = << "x", "1" >> -> 8
      [] setting = << "-", "3" >> -> 1
      [] setting = << "0" >> -> 1
      [] setting = << "2" >> -> 2
      [] setting = << " ", "+", "1" >> -> 1
      [] setting = << "4", "0" >> -> 32

\* C23: once the pool is made, its worker count is the configured value clamped to
\* 1 .. 32 (8 when the setting is absent or not an integer), never more tasks
\* execute at once than that, and while a task is unfinished some task is
\* executing or can start.
C23_BoundedConcurrency ==
    threads # << >> =>
      /\ workers = ExpectedWorkers
      /\ workers \in 1 .. 32
      /\ Cardinality(Executing) <= workers
      /\ tasks # { } =>
           \/ Executing # { }
           \/ /\ \E i \in DOMAIN threads : threads[i].pc = "queued"
              /\ Cardinality(Executing) < workers

\* with one worker, a task is between two lookups while the next one waits
C23_Witness ==
    /\ workers = 1
    /\ Len(threads) = 2
    /\ threads[1].pc = "retry"
    /\ threads[2].pc = "queued"
    /\ mpn_variants(products_norm[2].mpn) # << >>

IsProduct(obj) == obj[1] = "product"

\* one task per product, and a product is written by its own task only
OwnProductOnly ==
    threads # << >> =>
      /\ DOMAIN threads = DOMAIN products_norm
      /\ \A w \in writes : IsProduct(w.to) => w.to = ProductObject(w.by)

\* C24: one task is submitted per product, a task writes no product but its own,
\* and no object at all is written by two tasks.
C24_NoSharedWrites ==
    /\ OwnProductOnly
    /\ \A w1, w2 \in writes : w1.to = w2.to => w1.by = w2.by

\* C29: after the pool has been joined (the call stands at its return, or has
\* returned), sys.stdout is the stream it was before the call.
C29_StdoutRestored ==
    (threads # << >> /\ pool_joined(tasks)) => sys_stdout = Console

\* the redirections are balanced when the tasks run one after the other: with one
\* worker the stream is back after the join
StdoutRestoredWithOneWorker ==
    (threads # << >> /\ pool_joined(tasks) /\ workers = 1) => sys_stdout = Console

\* ---------------------------------------------- the searchable parameters

\* the longest ranked list whose usable parameters are listed
MaxValueRows == 3

\* ranked rows: a value with identifiers, neither name nor value, a placeholder
\* value, a value without a name, a row of nothing, a name that is itself a
\* placeholder, and a value with blanks around it
ValueRowPool ==
    << [ id |-> << "1" >>, name |-> << "V" >>, value |-> << "2", "4", "V" >>,
         value_id |-> << "9" >> ],
       [ id |-> << "4" >>, name |-> << >>, value |-> << "N", "/", "A" >>,
         value_id |-> None ],
       [ id |-> None, name |-> << "I", "P" >>, value |-> << "-" >>, value_id |-> None ],
       [ id |-> << "5" >>, name |-> << " " >>, value |-> << "5" >>, value_id |-> None ],
       [ id |-> None, name |-> None, value |-> None, value_id |-> None ],
       [ id |-> << "6" >>, name |-> << "N", "A" >>, value |-> << "emdash" >>,
         value_id |-> None ],
       [ id |-> << "2" >>, name |-> << "A", "i", "r" >>,
         value |-> << " ", "1", " ", "C", " " >>, value_id |-> << >> ] >>

ValueRankedLists == { r \in SubLists(ValueRowPool) : Len(r) <= MaxValueRows }

\* the call stands before line 359 with the ranked rows of the lookup
ValuesInit ==
    /\ pc = "values"
    /\ mpn = MPN_4414F
    /\ require_results = TRUE
    /\ base_mode = "none"
    /\ \E r \in ValueRankedLists : base = [ NoBase EXCEPT !.ranked_parameters = r ]
    /\ triples = << >>
    /\ base_keywords = << >>
    /\ used = << >>
    /\ dropped = << >>
    /\ iterations = << >>
    /\ products_norm = << >>
    /\ raw = << >>
    /\ idx = 0
    /\ queries = << >>
    /\ search_log = << >>
    /\ token_requests = 0
    /\ credential = << "t" >>
    /\ token = NoToken
    /\ tasks = { }
    /\ futs = << >>
    /\ enrich_lookups = 0
    /\ PoolNotStarted
    /\ result = NoResult
    /\ rank_pc = "idle"
    /\ params = << >>
    /\ api_key = FALSE
    /\ content = NoContent
    /\ rank_result = NoRanking

\* line 359: triples = _values_from_ranked(ranked)
ListValues ==
    /\ pc = "values"
    /\ triples' = values_from_ranked(base.ranked_parameters)
    /\ pc' = "listed"
    /\ UNCHANGED << mpn, require_results, base_mode, base, base_keywords, used, dropped,
                    iterations, products_norm, raw, idx, queries, search_log,
                    token_requests, credential, token, enrich_vars, result,
                    rank_vars, pool_vars >>

ValuesNext == ListValues

ValuesSpec == ValuesInit /\ [][ValuesNext]_vars

\* a usable text: not missing, and not a placeholder whatever its case
Usable(v) == v # None /\ Lower(Strip(v)) \notin PLACEHOLDER
Named(p) == p.name # None /\ Strip(p.name) # << >>

\* a row as the searchable list should carry it: its value, or its name when the
\* value is not usable
Searchable(p) ==
    [ name |-> Strip(OrEmpty(p.name)),
      value |-> IF Usable(p.value) THEN Strip(p.value) ELSE Strip(OrEmpty(p.name)) ]

NameValue(ts) == [ i \in DOMAIN ts |-> [ name |-> ts[i].name, value |-> ts[i].value ] ]

\* the rows that have a name, and whose name or value is usable
NamedRowsListed ==
    pc = "listed" =>
      NameValue(triples)
        = LET kept == SelectSeq(base.ranked_parameters,
                                LAMBDA p : Named(p) /\ (Usable(p.value) \/ Usable(p.name)))
          IN  [ i \in DOMAIN kept |-> Searchable(kept[i]) ]

\* C27: the searchable list is the ranked list, in its order, without the rows
\* that have neither a name nor a usable value; a row whose value is empty or a
\* placeholder has its name for value, and every row with a usable value is there.
C27_SearchableList ==
    pc = "listed" =>
      NameValue(triples)
        = LET kept == SelectSeq(base.ranked_parameters,
                                LAMBDA p : Named(p) \/ Usable(p.value))
          IN  [ i \in DOMAIN kept |-> Searchable(kept[i]) ]

\* ------------------------------------------------------- the base tokens

\* the longest part number whose base tokens are computed
MaxMpnLen == 8

\* the characters of those part numbers: a digit, a letter and a dash
MpnChars == { "1", "a", "-" }

TokenMpns == UNION { [ 1 .. n -> MpnChars ] : n \in 1 .. MaxMpnLen }

\* the call stands before line 399 with a part number that is not blank
TokensInit ==
    /\ pc = "tokens"
    /\ mpn \in TokenMpns
    /\ require_results = TRUE
    /\ base_mode = "none"
    /\ base = [ NoBase EXCEPT !.ranked_parameters = << ParamPool[1] >> ]
    /\ triples = values_from_ranked(<< ParamPool[1] >>)
    /\ base_keywords = << >>
    /\ used = << >>
    /\ dropped = << >>
    /\ iterations = << >>
    /\ products_norm = << >>
    /\ raw = << >>
    /\ idx = 0
    /\ queries = << >>
    /\ search_log = << >>
    /\ token_requests = 1
    /\ credential = << "t" >>
    /\ token = << "t" >>
    /\ tasks = { }
    /\ futs = << >>
    /\ enrich_lookups = 0
    /\ PoolNotStarted
    /\ result = NoResult
    /\ rank_pc = "idle"
    /\ params = << >>
    /\ api_key = FALSE
    /\ content = NoContent
    /\ rank_result = NoRanking

\* line 399: base_tokens_for_filter = _base_tokens(mpn), which the returned
\* dictionary carries as "base_tokens" (line 537)
ComputeBaseTokens ==
    /\ pc = "tokens"
    /\ result' = [ result EXCEPT !.base_tokens = base_tokens(mpn) ]
    /\ pc' = "attempt"
    /\ UNCHANGED << mpn, require_results, base_mode, base, triples, base_keywords, used,
                    dropped, iterations, products_norm, raw, idx, queries, search_log,
                    token_requests, credential, token, enrich_vars,
                    rank_vars, pool_vars >>

TokensNext == ComputeBaseTokens

TokensSpec == TokensInit /\ [][TokensNext]_vars

\* the part number in upper case without what is neither letter nor digit
Normalized == norm_mpn(mpn)

\* the maximal runs of digits of the normalized part number between the
\* positions i and j
IsRun(i, j) ==
    /\ i <= j
    /\ \A k \in i .. j : Normalized[k] \in DigitSet
    /\ i = 1 \/ Normalized[i - 1] \notin DigitSet
    /\ j = Len(Normalized) \/ Normalized[j + 1] \notin DigitSet

LongRuns ==
    { SubSeq(Normalized, r[1], r[2]) :
        r \in { q \in (DOMAIN Normalized) \X (DOMAIN Normalized) :
                  IsRun(q[1], q[2]) /\ q[2] - q[1] >= 2 } }

LeadingRun ==
    { SubSeq(Normalized, 1, j) : j \in { k \in DOMAIN Normalized : IsRun(1, k) } }

\* the tokens are digit strings of the normalized part number, none twice, the
\* longer ones first
TokensWellFormed ==
    LET T == result.base_tokens
    IN  /\ \A i, j \in DOMAIN T : T[i] = T[j] => i = j
        /\ \A i, j \in DOMAIN T : i < j => Len(T[i]) >= Len(T[j])
        /\ \A i \in DOMAIN T :
             /\ T[i] # << >>
             /\ \A k \in DOMAIN T[i] : T[i][k] \in DigitSet
             /\ IsSubstring(T[i], Normalized)

MaxRankParams == 2
\* the longest "ranked" list in an answer of the oracle
MaxOracleRows == 2

\* An identifier is a string, or an integer n written << "int", n >>; str() of it
\* is the string of its digits, and str(None) is "None".
IntId(digits) == << "int" >> \o digits
StrOf(id) ==
    IF id = None THEN << "N", "o", "n", "e" >>
    ELSE IF id # << >> /\ Head(id) = "int" THEN Tail(id)
    ELSE id

\* the rows a caller passes: the integer id 1, the string id "1" twice with
\* different values, the id 2 without a value, and a row without id
RankParamPool ==
    { [ id |-> IntId(<< "1" >>), name |-> << "V" >>, value |-> << "a" >> ],
      [ id |-> << "1" >>, name |-> << "V" >>, value |-> << "b" >> ],
      [ id |-> << "1" >>, name |-> << "W" >>, value |-> << "d" >> ],
      [ id |-> IntId(<< "2" >>), name |-> << "A" >>, value |-> None ],
      [ id |-> None, name |-> << "X" >>, value |-> << "c" >> ] }

RECURSIVE SeqsUpTo(_, _)
SeqsUpTo(S, n) ==
    IF n = 0 THEN { << >> }
    ELSE LET shorter == SeqsUpTo(S, n - 1)
         IN  shorter \cup { Append(q, x) : q \in { r \in shorter : Len(r) = n - 1 },
                                            x \in S }

RankInputs == SeqsUpTo(RankParamPool, MaxRankParams)

\* the rows of an answer: objects naming the id 1 (as an integer), the id 2 with
\* another name, an id nobody passed, an object without id, and a row that is
\* not an object
OracleRowPool ==
    { [ obj |-> TRUE, id |-> IntId(<< "1" >>), name |-> << "V" >> ],
      [ obj |-> TRUE, id |-> << "2" >>, name |-> << "F" >> ],
      [ obj |-> TRUE, id |-> << "7" >>, name |-> None ],
      [ obj |-> TRUE, id |-> None, name |-> << "X" >> ],
      [ obj |-> FALSE, id |-> None, name |-> None ] }

\* what an API call gives as text:
\*   "none"      no text (the call failed, or the response carried none)
\*   "empty"     the empty string
\*   "notjson"   text json.loads rejects
\*   "notdict"   JSON that is not an object
\*   "noranked"  a JSON object without "ranked"
\*   "rankedstr" a JSON object whose "ranked" is a string, not a list
\*   "ranked"    a JSON object whose "ranked" is the list rows
Contents ==
    { [ kind |-> k, rows |-> << >> ] :
        k \in { "none", "empty", "notjson", "notdict", "noranked", "rankedstr" } }
      \cup { [ kind |-> "ranked", rows |-> rs ] : rs \in SeqsUpTo(OracleRowPool, MaxOracleRows) }

\* "if not content"
NoText(c) == c.kind \in { "none", "empty" }

\* lines 129-138: by_id, where a later row with the same str(id) replaces an earlier
WithId(ps) == SelectSeq(ps, LAMBDA q : q.id # None)
by_id(ps) ==
    LET rows == WithId(ps)
    IN  [ sid \in { StrOf(rows[i].id) : i \in DOMAIN rows } |->
            LET last == CHOOSE i \in DOMAIN rows :
                          /\ StrOf(rows[i].id) = sid
                          /\ \A j \in DOMAIN rows : StrOf(rows[j].id) = sid => j <= i
            IN  [ id |-> sid, name |-> rows[last].name, value |-> rows[last].value ] ]

\* lines 130-144: compact, one item per row that has an id
compact_of(ps) ==
    LET rows == WithId(ps)
    IN  [ i \in DOMAIN rows |-> [ id |-> StrOf(rows[i].id), name |-> rows[i].name ] ]

\* lines 155-162: the rows to rank in, before they are completed.  Without text they
\* are the compact rows; text that is not JSON, JSON that is not an object (data.get
\* raises inside the try) and an object without "ranked" give no row
parsed_rows(c, compact) ==
    IF NoText(c)
      THEN [ i \in DOMAIN compact |->
               [ obj |-> TRUE, id |-> compact[i].id, name |-> compact[i].name ] ]
    ELSE IF c.kind = "ranked" THEN c.rows
    ELSE << >>

\* line 165 calls p.get on every row: a row that is not an object, or a "ranked"
\* that is a string (whose items are characters), raises AttributeError
completion_raises(c) ==
    /\ ~NoText(c)
    /\ \/ c.kind = "rankedstr"
       \/ c.kind = "ranked" /\ \E i \in DOMAIN c.rows : ~c.rows[i].obj

\* lines 164-168: the compact rows whose id no row names are appended
ranked_min_of(c, compact) ==
    LET rows == parsed_rows(c, compact)
        seen_ids == { StrOf(rows[i].id) : i \in DOMAIN rows }
        missing == SelectSeq(compact, LAMBDA q : StrOf(q.id) \notin seen_ids)
    IN  IF NoText(c) THEN rows
        ELSE rows \o [ i \in DOMAIN missing |->
                         [ obj |-> TRUE, id |-> missing[i].id, name |-> missing[i].name ] ]

\* lines 171-180: each row gets the value by_id holds for its id
ranked_with_values(ranked_min, byid) ==
    [ i \in DOMAIN ranked_min |->
        LET row    == ranked_min[i]
            sid    == StrOf(row.id)
            basev  == IF sid \in DOMAIN byid THEN byid[sid]
                      ELSE [ id |-> sid, name |-> row.name, value |-> None ]
        IN  [ id |-> sid,
              name |-> IF Truthy(row.name) THEN row.name ELSE basev.name,
              value |-> basev.value ] ]

RankInit ==
    /\ rank_pc = "call"
    /\ params \in RankInputs
    /\ api_key \in BOOLEAN
    /\ content = NoContent
    /\ rank_result = NoRanking
    /\ pc = "idle"
    /\ mpn = << >>
    /\ require_results = TRUE
    /\ base_mode = "none"
    /\ base = NoBase
    /\ triples = << >>
    /\ base_keywords = << >>
    /\ used = << >>
    /\ dropped = << >>
    /\ iterations = << >>
    /\ products_norm = << >>
    /\ raw = << >>
    /\ idx = 0
    /\ queries = << >>
    /\ search_log = << >>
    /\ token_requests = 0
    /\ credential = None
    /\ token = NoToken
    /\ tasks = { }
    /\ futs = << >>
    /\ enrich_lookups = 0
    /\ PoolNotStarted
    /\ result = NoResult

\* lines 125-126: nothing to rank
RankNothing ==
    /\ rank_pc = "call"
    /\ params = << >>
    /\ rank_result' = [ NoRanking EXCEPT !.kind = "returned" ]
    /\ rank_pc' = "done"
    /\ UNCHANGED << params, api_key, content, search_vars >>

\* lines 128-148 and 53-57: the rows are indexed and the client is built; without
\* OPENAI_API_KEY _client raises RuntimeError, which nothing catches
BuildClient ==
    /\ rank_pc = "call"
    /\ params # << >>
    /\ IF api_key
         THEN /\ rank_pc' = "responses"
              /\ rank_result' = rank_result
         ELSE /\ rank_pc' = "done"
              /\ rank_result' = [ NoRanking EXCEPT !.kind = "raised",
                                                   !.error = "RuntimeError" ]
    /\ UNCHANGED << params, api_key, content, search_vars >>

\* lines 150 and 59-89: the Responses API is asked
TryResponses ==
    /\ rank_pc = "responses"
    /\ \E c \in Contents :
         /\ content' = c
         /\ rank_pc' = IF NoText(c) THEN "chat" ELSE "parse"
    /\ UNCHANGED << params, api_key, rank_result, search_vars >>

\* lines 151-152 and 91-107: without text, the Chat API is asked
TryChat ==
    /\ rank_pc = "chat"
    /\ \E c \in Contents :
         /\ content' = c
         /\ rank_pc' = "parse"
    /\ UNCHANGED << params, api_key, rank_result, search_vars >>

\* lines 154-189: the answer is parsed, completed and given its values back
ParseAndRemap ==
    /\ rank_pc = "parse"
    /\ rank_result' =
         IF completion_raises(content)
           THEN [ NoRanking EXCEPT !.kind = "raised", !.error = "AttributeError" ]
           ELSE [ NoRanking EXCEPT
                    !.kind = "returned",
                    !.rows = ranked_with_values(ranked_min_of(content, compact_of(params)),
                                                by_id(params)) ]
    /\ rank_pc' = "done"
    /\ UNCHANGED << params, api_key, content, search_vars >>

RankNext ==
    \/ RankNothing
    \/ BuildClient
    \/ TryResponses
    \/ TryChat
    \/ ParseAndRemap

RankSpec == RankInit /\ [][RankNext]_vars

\* ------------------------------------------------ claims about the ranking

Ranked == rank_pc = "done" /\ rank_result.kind = "returned"
OutIds == [ i \in DOMAIN rank_result.rows |-> rank_result.rows[i].id ]
InputIds == { StrOf(params[i].id) : i \in { j \in DOMAIN params : params[j].id # None } }
\* the rows of the input as the output writes them, in input order
InputRows ==
    [ i \in DOMAIN params |->
        [ id |-> StrOf(params[i].id), name |-> params[i].name, value |-> params[i].value ] ]

\* C5: whatever the input and whatever the oracle answers, the ranked list has
\* exactly one entry per id of the input: no id twice, no id the input does not
\* have, and every parameter of the input.
C5_Bijection ==
    Ranked =>
      /\ \A i, j \in DOMAIN OutIds : OutIds[i] = OutIds[j] => i = j
      /\ RangeOf(OutIds) \subseteq InputIds
      /\ InputIds \subseteq RangeOf(OutIds)
      /\ Len(OutIds) = Cardinality(InputIds)

\* C6: when neither API call gives text, the ranked list is the input in its
\* order, every row with its own value.
C6_FallbackIsInputOrder ==
    (Ranked /\ NoText(content)) => rank_result.rows = InputRows

\* the answers the claim calls malformed
Malformed(c) ==
    \/ c.kind \in { "notjson", "notdict", "noranked", "rankedstr" }
    \/ c.kind = "ranked" /\ \E i \in DOMAIN c.rows : ~c.rows[i].obj

\* C7: without credential, or with a malformed answer, rank_parameter_ids does not
\* raise: it returns the rows in input order.
C7_NeverFailsHard ==
    (rank_pc = "done" /\ params # << >> /\ (~api_key \/ Malformed(content))) =>
      /\ rank_result.kind = "returned"
      /\ OutIds = [ i \in DOMAIN compact_of(params) |-> compact_of(params)[i].id ]

\* the first row of the input that has the id of row i
FirstWith(i) ==
    CHOOSE k \in DOMAIN params :
      params[k].id = params[i].id /\ \A l \in DOMAIN params : params[l].id = params[i].id => k <= l

\* C25: when several rows of the input have the same id, the output has one row
\* with that id, and its value is the value of the first of them.
C25_FirstOccurrenceWins ==
    Ranked =>
      \A i, j \in DOMAIN params :
        (i < j /\ params[i].id # None /\ params[i].id = params[j].id) =>
          /\ Cardinality({ k \in DOMAIN OutIds : OutIds[k] = StrOf(params[i].id) }) = 1
          /\ \A k \in DOMAIN OutIds :
               OutIds[k] = StrOf(params[i].id) =>
                 rank_result.rows[k].value = params[FirstWith(i)].value

\* the ids of the oracle's rows, as the output writes them
OracleIds == [ i \in DOMAIN content.rows |-> StrOf(content.rows[i].id) ]
AnsweredRanking == Ranked /\ content.kind = "ranked"

\* the rows of the input no row of the oracle names, in input order
Omitted ==
    SelectSeq(InputRows, LAMBDA q : q.id \notin RangeOf(OracleIds))

OracleFirstThenOmitted ==
    /\ Len(rank_result.rows) = Len(OracleIds) + Len(Omitted)
    /\ \A i \in DOMAIN OracleIds : OutIds[i] = OracleIds[i]
    /\ \A i \in DOMAIN Omitted : rank_result.rows[Len(OracleIds) + i] = Omitted[i]
    /\ \A i \in DOMAIN rank_result.rows :
         LET row == rank_result.rows[i]
         IN  \/ \E j \in DOMAIN params :
                  /\ params[j].id # None
                  /\ StrOf(params[j].id) = row.id
                  /\ params[j].value = row.value
             \/ row.id \notin InputIds /\ row.value = None

\* every row of the input has an id, and no two rows have the same id
DistinctIds ==
    \A i, j \in DOMAIN params :
      params[i].id # None /\ (StrOf(params[i].id) = StrOf(params[j].id) => i = j)

\* the ordering holds for inputs whose rows all have an id of their own
OracleOrderWithDistinctIds ==
    (AnsweredRanking /\ DistinctIds) => OracleFirstThenOmitted

\* C26: when the oracle answers with a ranked list, the output is the oracle's rows
\* in the oracle's order, then every row of the input the oracle left out, in input
\* order; every row of the output has a value of the input for its id (no value
\* when the input has no such id).
C26_OracleOrderThenOmitted ==
    AnsweredRanking => OracleFirstThenOmitted

=============================================================================
